---- MODULE Spec2Model ----
(***************************************************************************)
(* Ingredient harvesting and normalisation (Pivota catalog intelligence).  *)
(*                                                                         *)
(* Conventions.  Scores, confidences and ranks are Python floats built     *)
(* from two-decimal literals; they are kept here as integers in hundredths *)
(* (0.35 is 35, the initial best_rank -1.0 is -100).  A text is a sequence *)
(* of symbols [w |-> word, s |-> separator that follows it]; it stands for *)
(* the string made of each word immediately followed by its separator,     *)
(* the symbols joined by single spaces.  Words are kept lowercase.  Python *)
(* None is the empty tuple, a present value v is <<v>>.  Non-ASCII         *)
(* characters are written by their code points ("U+FF0C").                 *)
(***************************************************************************)
EXTENDS Integers, Sequences, FiniteSets, TLC

\* ---------------------------------------------------------------- bounds
\* Longest URL list a search engine hands back (process looks at 3 of them).
MaxUrls == 4
\* Longest text, in symbols, drawn as an extraction candidate.
MaxSymbols == 5
\* Most tokens one parse call iterates over.
MaxTokens == 12
\* Longest list, in items, drawn as an input of parse.
MaxItems == 3
\* Longest text, in symbols, drawn as an input of clean_noise.
MaxCleanLen == 3
\* Longest text, in characters, drawn as an input of _split_outside_parens.
MaxSplitLen == 5
\* Most elements in the body of a document drawn as an input of extraction.
MaxElements == 3
\* Longest text, in characters, drawn as an input of _split_ingredients.
MaxSlashLen == 5
MaxNoiseLen == 3
MaxTrustLen == 4
MaxRows == 2
MaxRequests == 2
MaxClock == 4

\* ------------------------------------------------------ generic helpers
None == <<>>
Some(v) == <<v>>

Min(a, b) == IF a <= b THEN a ELSE b
Max(a, b) == IF a >= b THEN a ELSE b

Take(s, n) == SubSeq(s, 1, Min(n, Len(s)))

RECURSIVE SumOver(_, _)
SumOver(f, S) ==
    IF S = {} THEN 0
    ELSE LET x == CHOOSE y \in S : TRUE IN f[x] + SumOver(f, S \ {x})

\* =================================================================
\* extract.py : texts, the script/JSON detector and the feature score
\* =================================================================

COMMON_TOKENS ==
    {"water", "aqua", "glycerin", "alcohol", "fragrance", "parfum", "sodium",
     "citric", "acid", "ethanol", "U+4E59U+9187", "U+7518U+6CB9", "U+6C34"}

\* The separators _feature_score looks for: ',' ';' and their full-width forms.
ListSeparators == {",", ";", "U+FF0C", "U+FF1B"}

\* Words that match one of SCRIPT_OR_JSON_PATTERNS.
ScriptMarkers ==
    {"self.__next_f.push", "__NEXT_DATA__", "webpack", "function(", "var x",
     "const x", "let x", "=>", "window.", "document.", "\"assetsUrl\"",
     "\"buildId\"", "\"pageProps\""}

\* A run of filler characters longer than any length threshold of the file.
PageDump == "<3001 filler characters>"

Sym(w, s) == [w |-> w, s |-> s]

\* len() of a word or separator: a full-width separator is one character.
Chars(x) ==
    IF x = PageDump THEN 3001
    ELSE IF x \in {"U+FF0C", "U+FF1B", "U+FF1A", "U+200B"} THEN 1
    ELSE IF x \in {"U+4E59U+9187", "U+7518U+6CB9", "U+6210U+5206"} THEN 2
    ELSE IF x = "U+6C34" THEN 1
    ELSE Len(x)

\* len(t) of the string a text stands for (t is already stripped).
TextLen(t) ==
    IF t = <<>> THEN 0
    ELSE SumOver([i \in 1..Len(t) |-> Chars(t[i].w) + Chars(t[i].s)], 1..Len(t))
         + (Len(t) - 1)

\* `tok in word` for the words used here (substring test on lowercase text).
TokensIn(w) ==
    CASE w = "water" -> {"water"}
      [] w = "aqua" -> {"aqua"}
      [] w = "glycerin" -> {"glycerin"}
      [] w = "fragrance" -> {"fragrance"}
      [] w = "parfum" -> {"parfum"}
      [] w = "citric acid" -> {"citric", "acid"}
      [] w = "sodium chloride" -> {"sodium"}
      [] w = "alcohol denat" -> {"alcohol"}
      [] w = "U+6C34" -> {"U+6C34"}
      [] w = "U+7518U+6CB9" -> {"U+7518U+6CB9"}
      [] w = "U+4E59U+9187" -> {"U+4E59U+9187"}
      [] OTHER -> {}

CountWord(t, w) == Cardinality({i \in 1..Len(t) : t[i].w = w})

_looks_like_script_or_json(t) ==
    IF t = <<>> THEN FALSE
    ELSE IF TextLen(t) >= 120 /\ t[1].w \in {"{", "["} THEN TRUE
    ELSE IF \E i \in 1..Len(t) : t[i].w \in ScriptMarkers THEN TRUE
    ELSE IF /\ CountWord(t, "{") >= 3
            /\ CountWord(t, "}") >= 3
            /\ Cardinality({i \in 1..Len(t) : t[i].s = ":"}) >= 4
            /\ CountWord(t, "\"") >= 4 THEN TRUE
    ELSE FALSE

\* Faulty variant of HasListSeparator: the bonus is given to every text.
HasListSeparator_Any(t) == TRUE

\* Line 163.
HasListSeparator(t) == \E i \in 1..Len(t) : t[i].s \in ListSeparators

\* hits = sum(1 for tok in COMMON_TOKENS if tok in lower)
Hits(t) == Cardinality({tok \in COMMON_TOKENS :
                          \E i \in 1..Len(t) : tok \in TokensIn(t[i].w)})

\* Number of non-empty parts of re.split(r"[,;<fw>]\s*", t): a part ends at each
\* list separator and is non-empty when one of its symbols carries a word.
RECURSIVE PartsFrom(_, _, _)
PartsFrom(t, i, open) ==
    IF i > Len(t) THEN (IF open THEN 1 ELSE 0)
    ELSE LET filled == open \/ t[i].w # "" \/ (t[i].s # "" /\ t[i].s \notin ListSeparators)
         IN IF t[i].s \in ListSeparators
            THEN (IF filled THEN 1 ELSE 0) + PartsFrom(t, i + 1, FALSE)
            ELSE PartsFrom(t, i + 1, filled)

TokenCount(t) == PartsFrom(t, 1, FALSE)

HitBonus(t) == Min(35, Hits(t) * 8)

DensityBonus(t) ==
    IF TokenCount(t) >= 5 THEN 30
    ELSE IF TokenCount(t) >= 4 THEN 25
    ELSE 0

_feature_score(t) ==
    IF t = <<>> THEN 0
    ELSE IF TextLen(t) < 10 THEN 10
    ELSE IF TextLen(t) > 3000 THEN 20
    ELSE IF _looks_like_script_or_json(t) THEN 5
    ELSE Min(100, (IF HasListSeparator(t) THEN 35 ELSE 0) + HitBonus(t) + DensityBonus(t))

\* =================================================================
\* extract.py : pages and extract_ingredients
\* =================================================================

(* A fetched page, as far as extraction reads it: whether the html is the   *)
(* empty string, whether parsing it raises, the candidate blocks in the    *)
(* order _collect_candidates returns them (each already sliced, label-     *)
(* stripped and noise-cleaned: lines 249-252), and the blocks whose first  *)
(* 20 characters occur in the page's visible text.                         *)
MkPage(empty, broken, cands, dom) ==
    [empty |-> empty, broken |-> broken, cands |-> cands, dom |-> dom]

verify_token_in_dom(page, text) ==
    IF page.empty \/ text = <<>> THEN FALSE
    ELSE text \in page.dom

\* Lines 253-260: the candidates that survive the filters.
KeepCandidate(t) ==
    /\ t # <<>>
    /\ TextLen(t) >= 10
    /\ ~_looks_like_script_or_json(t)
    /\ _feature_score(t) >= 30

\* Lines 263-268: first occurrence of each text.
RECURSIVE Uniq(_)
Uniq(s) ==
    IF s = <<>> THEN <<>>
    ELSE LET init == Uniq(SubSeq(s, 1, Len(s) - 1))
             last == s[Len(s)]
         IN IF \E i \in 1..Len(init) : init[i] = last THEN init ELSE Append(init, last)

\* Faulty variant of SortsBefore: at equal score the longer text comes first.
SortsBefore_Longer(a, b) ==
    \/ _feature_score(a) > _feature_score(b)
    \/ _feature_score(a) = _feature_score(b) /\ TextLen(a) > TextLen(b)

\* Line 271: key (-score, len) of the stable sort; TRUE when a sorts before b.
SortsBefore(a, b) ==
    \/ _feature_score(a) > _feature_score(b)
    \/ _feature_score(a) = _feature_score(b) /\ TextLen(a) < TextLen(b)

\* cleaned[0] after the stable sort: nothing sorts before it, and nothing
\* collected earlier has the same key.
BestOf(c) ==
    LET i == CHOOSE k \in 1..Len(c) :
                 /\ \A j \in 1..Len(c) : ~SortsBefore(c[j], c[k])
                 /\ \A j \in 1..(k - 1) : SortsBefore(c[k], c[j])
    IN c[i]

DebugHint(n, score, verified) ==
    [candidates |-> n, score |-> score, verified |-> verified]

extract_ingredients(page) ==
    IF page.empty THEN None
    ELSE LET cleaned == Uniq(SelectSeq(page.cands, KeepCandidate))
         IN IF cleaned = <<>> THEN None
            ELSE LET best == BestOf(cleaned)
                     score == _feature_score(best)
                     verified == verify_token_in_dom(page, best)
                 IN Some([text |-> best, score |-> score,
                          verified_in_dom |-> verified,
                          debug_hint |-> DebugHint(Len(cleaned), score, verified)])

\* =================================================================
\* extract.py : the document, candidate collection and preparation
\* =================================================================

(* The parsed html, as far as extraction reads it: the elements of the     *)
(* body in document order. An element has a tag, whether its id, class or  *)
(* data-testid contains 'ingredient', the text directly inside it, and its *)
(* child elements (which have no children of their own). Texts are in      *)
(* lowercase, so the IGNORECASE flags and .lower() calls change nothing.   *)
Element(tag, marked, text, kids) ==
    [tag |-> tag, marked |-> marked, text |-> text, kids |-> kids]

Html(empty, body) == [empty |-> empty, body |-> body]

KEYWORDS_EN == {"ingredients", "inci"}
KEYWORDS_ZH == {"U+5168U+6210U+5206", "U+6210U+5206", "U+914DU+6599", "U+914DU+65B9"}

\* Lines 244-245; market is taken stripped and uppercased.
ZhMarkets == {"CN", "CHN", "CHINA"}

KeywordsFor(market) == IF market \in ZhMarkets THEN KEYWORDS_ZH ELSE KEYWORDS_EN

NonContentTags == {"script", "style", "noscript", "svg"}

LabelTags == {"h1", "h2", "h3", "h4", "h5", "h6", "strong", "b", "span", "p", "div"}

RECURSIVE Flat(_)
Flat(ss) == IF ss = <<>> THEN <<>> ELSE Head(ss) \o Flat(Tail(ss))

\* _normalize_space(el.get_text(" ", strip=True)): the text nodes below el,
\* in document order, joined by single spaces.
get_text(el) == el.text \o Flat([j \in 1..Len(el.kids) |-> el.kids[j].text])

BodyText(body) == Flat([i \in 1..Len(body) |-> get_text(body[i])])

IsContent(el) == el.tag \notin NonContentTags

StripKids(el) == [el EXCEPT !.kids = SelectSeq(el.kids, IsContent)]

\* Faulty variant of _strip_non_content_tags: nothing is decomposed.
_strip_non_content_tags_Kept(body) == body

\* Lines 118-120: every script, style, noscript and svg element is removed
\* from the tree, with everything below it.
_strip_non_content_tags(body) ==
    LET kept == SelectSeq(body, IsContent)
    IN [i \in 1..Len(kept) |-> StripKids(kept[i])]

\* Line 123.
_dom_text(body) == BodyText(body)

\* The words of a text in which keyword k is found by _looks_like_heading:
\* \bingredients?\b, \binci\b, or the keyword as a substring.
HeadingWords(k) ==
    CASE k = "ingredients" -> {"ingredients", "ingredient", "\"ingredients"}
      [] k = "inci" -> {"inci"}
      [] k = "U+6210U+5206" -> {"U+6210U+5206", "U+5168U+6210U+5206"}
      [] k = "U+5168U+6210U+5206" -> {"U+5168U+6210U+5206"}
      [] k = "U+914DU+6599" -> {"U+914DU+6599"}
      [] k = "U+914DU+65B9" -> {"U+914DU+65B9"}
      [] OTHER -> {}

\* Lines 178-196.
_looks_like_heading(t, keywords) ==
    /\ t # <<>>
    /\ TextLen(t) <= 120
    /\ \E k \in keywords : \E i \in 1..Len(t) : t[i].w \in HeadingWords(k)

\* An element as _collect_candidates sees it: the element, the siblings
\* that follow it, and the text of its parent.
Node(el, after, up) == [el |-> el, after |-> after, up |-> up]

\* soup.find_all / soup.select walk the tree in document order.
Nodes(body) ==
    Flat([i \in 1..Len(body) |->
            <<Node(body[i], SubSeq(body, i + 1, Len(body)), BodyText(body))>>
            \o [j \in 1..Len(body[i].kids) |->
                  Node(body[i].kids[j],
                       SubSeq(body[i].kids, j + 1, Len(body[i].kids)),
                       get_text(body[i]))]])

Over10(t) == TextLen(t) > 10
Over20(t) == TextLen(t) > 20

\* Lines 203-206: elements with an ingredient-ish id or class.
FromMarked(node) ==
    IF node.el.marked THEN SelectSeq(<<get_text(node.el)>>, Over10) ELSE <<>>

\* Lines 209-233: a heading, the four elements after it, and its parent.
FromHeading(node, keywords) ==
    IF node.el.tag \in LabelTags /\ _looks_like_heading(get_text(node.el), keywords)
    THEN SelectSeq(<<get_text(node.el)>>, Over10)
         \o SelectSeq([k \in 1..Min(4, Len(node.after)) |-> get_text(node.after[k])],
                      Over10)
         \o SelectSeq(<<node.up>>, Over20)
    ELSE <<>>

_collect_candidates(body, keywords) ==
    LET nodes == Nodes(body)
    IN Flat([i \in 1..Len(nodes) |-> FromMarked(nodes[i])])
       \o Flat([i \in 1..Len(nodes) |-> FromHeading(nodes[i], keywords)])

Colons == {":", "U+FF1A"}

EnLabels == {"ingredients", "ingredient", "inci"}

\* The words that end with an English label; only the last has characters
\* before the label.
EnLabelEnds == EnLabels \cup {"\"ingredients"}

ZhLabels == KEYWORDS_ZH

\* Position of the leftmost symbol in which a label is followed by a colon,
\* 0 when there is none.
FirstLabel(t, ends) ==
    LET S == {i \in 1..Len(t) : t[i].w \in ends /\ t[i].s \in Colons}
    IN IF S = {} THEN 0 ELSE CHOOSE i \in S : \A j \in S : i <= j

\* m.start() > 0
StartsLater(t, i, labels) == i > 1 \/ t[i].w \notin labels

\* Lines 105-115.
_slice_after_label(t) ==
    LET en == FirstLabel(t, EnLabelEnds)
        zh == FirstLabel(t, ZhLabels)
    IN IF t = <<>> THEN <<>>
       ELSE IF en > 0 /\ StartsLater(t, en, EnLabels) THEN SubSeq(t, en + 1, Len(t))
       ELSE IF zh > 0 /\ StartsLater(t, zh, ZhLabels) THEN SubSeq(t, zh + 1, Len(t))
       ELSE t

DropLabel(t, labels) ==
    IF t # <<>> /\ t[1].w \in labels /\ t[1].s \in Colons THEN Tail(t) ELSE t

\* Lines 98-102.
_strip_label_prefix(t) == DropLabel(DropLabel(t, EnLabels), ZhLabels)

\* Words clean_noise of extract.py deletes together with what is attached.
UrlWords == {"https://shop.example/p"}

\* Words clean_noise of extract.py replaces by a space or deletes: zero-width
\* characters, hashtags, UI_ARTIFACT_PATTERNS, [more], runs of dots.
NoiseWords ==
    {"U+200B", "#glow", "read more", "show more", "view full list", "view more",
     "see more", "click here", "see text", "see image", "back to top", "back",
     "[more]", "...", "U+2026"}

Denoise(x) ==
    IF x.w \in UrlWords THEN Sym("", "")
    ELSE IF x.w \in NoiseWords THEN Sym("", x.s)
    ELSE x

Inked(x) == x.w # "" \/ x.s # ""

DropTrailing(t, words, seps) ==
    IF t # <<>> /\ t[Len(t)].w \in words /\ t[Len(t)].s \in seps
    THEN SubSeq(t, 1, Len(t) - 1)
    ELSE t

\* Lines 70-95, clean_noise of extract.py (the parser has its own).
extract_clean_noise(t) ==
    LET erased == SelectSeq([i \in 1..Len(t) |-> Denoise(t[i])], Inked)
    IN DropTrailing(DropTrailing(erased, {"and"}, {""}), {"etc"}, {"", "."})

\* Lines 249-252; _normalize_space changes nothing, a text being its symbols
\* joined by single spaces.
Prepared(c) == extract_clean_noise(_strip_label_prefix(_slice_after_label(c)))

\* The characters of a word or separator.
CharsOf(x) ==
    IF x = "U+6210U+5206" THEN <<"U+6210", "U+5206">>
    ELSE IF x \in {"U+FF0C", "U+FF1B", "U+FF1A", "U+200B", "U+6C34"} THEN <<x>>
    ELSE IF x = "U+4E59U+9187" THEN <<"U+4E59", "U+9187">>
    ELSE IF x = "U+7518U+6CB9" THEN <<"U+7518", "U+6CB9">>
    ELSE [i \in 1..Len(x) |-> SubSeq(x, i, i)]

\* The string a text stands for, character by character.
RECURSIVE CharSeq(_)
CharSeq(t) ==
    IF t = <<>> THEN <<>>
    ELSE IF Len(t) = 1 THEN CharsOf(t[1].w) \o CharsOf(t[1].s)
    ELSE CharsOf(t[1].w) \o CharsOf(t[1].s) \o <<" ">> \o CharSeq(Tail(t))

\* token in dom
Occurs(token, dom) ==
    \E i \in 0..(Len(dom) - Len(token)) : SubSeq(dom, i + 1, i + Len(token)) = token

\* Faulty variant of TokenOf: the text is not cut to 20 characters.
TokenOf_Whole(text) == CharSeq(_strip_label_prefix(extract_clean_noise(text)))

\* Line 133: the first 20 characters of the cleaned, label-stripped text.
TokenOf(text) == Take(CharSeq(_strip_label_prefix(extract_clean_noise(text))), 20)

\* Lines 127-136, on the parsed html.
TokenInDom(body, text) ==
    LET dom == CharSeq(_dom_text(_strip_non_content_tags(body)))
        token == TokenOf(text)
    IN text # <<>> /\ token # <<>> /\ Occurs(token, dom)

\* verify_token_in_dom called with an html and a text.
VerifyInHtml(html, text) ==
    IF html.empty \/ text = <<>> THEN FALSE ELSE TokenInDom(html.body, text)

\* The page extract_ingredients ranks: the prepared candidates, and those
\* the verification finds in the visible text.
PageOf(html, candidates) ==
    LET prepared == [i \in 1..Len(candidates) |-> Prepared(candidates[i])]
    IN MkPage(html.empty, FALSE, prepared,
              {prepared[i] : i \in {k \in 1..Len(prepared) :
                                      TokenInDom(html.body, prepared[k])}})

\* =================================================================
\* source_harvester.py : helpers
\* =================================================================

\* market is taken stripped and uppercased.
CnMarkets == {"CN", "CHN", "CHINA"}

build_query(market, brand, product_name) ==
    IF market \in CnMarkets
    THEN brand \o " " \o product_name \o " U+5168U+6210U+5206"
    ELSE brand \o " " \o product_name \o " ingredients list INCI"

\* The i-th URL a search hands back.
Url(i) ==
    CASE i = 1 -> "http://sephora.com/p1"
      [] i = 2 -> "https://incidecoder.com/p2"
      [] OTHER -> "https://brand.example/p" \o ToString(i)

\* str(r.url): the URL the retrieval ended at after redirects.
FinalUrl(u) == IF u = "http://sephora.com/p1" THEN "https://www.sephora.com/p1" ELSE u

\* The host markers of classify_source_type that occur in a URL.
RetailerUrls == {"http://sephora.com/p1", "https://www.sephora.com/p1"}
ThirdPartyUrls == {"https://incidecoder.com/p2"}

classify_source_type(url) ==
    IF url \in RetailerUrls THEN "Retailer"
    ELSE IF url \in ThirdPartyUrls THEN "ThirdParty"
    ELSE "Official"

\* An exception message: a label for its text and its length in characters.
Msg(text, len) == [text |-> text, len |-> len]
StrMsg(text) == Msg(text, Len(text))

\* str(exc)[:200]
ErrSlice == 200

\* Faulty variant of Truncated: the slice is forgotten (str(exc)).
Truncated_Unsliced(m) == m

Truncated(m) == [m EXCEPT !.len = Min(m.len, ErrSlice)]

\* What an exception raised while retrieving or extracting may say.
ExcMessages == {Msg("short parser error", 18), Msg("long parser traceback", 350)}

\* str() of the RetryError tenacity raises once the attempts are used up.
RetryErrorMsg == Msg("RetryError[<Future at 0x7f3c2a1b4d90 state=finished raised ConnectionError>]", 73)

\* An entry of debug["attempts"]; absent keys are None.
ErrorAttempt(url, err) ==
    [url |-> url, error |-> Some(err), score |-> None, verified |-> None, hint |-> None]

ExtractAttempt(url, score, verified, hint) ==
    [url |-> url, error |-> None, score |-> Some(score), verified |-> Some(verified),
     hint |-> Some(hint)]

HarvestOutcome(status, confidence, text, source_ref, source_type, debug) ==
    [status |-> status, confidence |-> confidence, raw_ingredient_text |-> text,
     source_ref |-> source_ref, source_type |-> source_type, debug |-> debug]

Debug(q, us, att, picked, hint, verified) ==
    [query |-> q, urls |-> us, attempts |-> att, picked |-> picked, hint |-> hint,
     verified |-> verified]

\* Thresholds of process.
TrustedMin == 80
PendingFloor == 30
PendingCeil == 80
VerifiedBonus == 5
InitialRank == -100
\* top_k of the search call and the slice urls[:3].
TopK == 3
\* Faulty variant of FetchAttempts: one attempt more than stop_after_attempt(3) allows.
FetchAttempts_OneMore == 3 + 1

\* stop_after_attempt(3) of fetch_html.
FetchAttempts == 3

\* Texts served by the pages below.
TextFiller == <<Sym("silica dimethicone", "")>>
TextLow == <<Sym("water", ","), Sym("silica", "")>>
TextMid == <<Sym("citric acid", ","), Sym("silica", ","), Sym("mica", ","), Sym("talc", "")>>
TextHigh ==
    <<Sym("citric acid", ";"), Sym("silica", ";"), Sym("mica", ";"), Sym("talc", ";"),
      Sym("kaolin", "")>>
TextGood ==
    <<Sym("water", ","), Sym("glycerin", ","), Sym("sodium chloride", ","),
      Sym("fragrance", ".")>>
TextScript == <<Sym("self.__next_f.push", ""), Sym("water", ","), Sym("glycerin", ","),
                Sym("parfum", "")>>

\* Pages a retrieval may return with a status below 400.
PageEmpty == MkPage(TRUE, FALSE, <<>>, {})
PageBroken == MkPage(FALSE, TRUE, <<>>, {})
PageSeeImage == MkPage(FALSE, FALSE, <<TextFiller>>, {TextFiller})
PageScript == MkPage(FALSE, FALSE, <<TextScript>>, {})
PageLow == MkPage(FALSE, FALSE, <<TextFiller, TextLow>>, {TextFiller})
PageMid == MkPage(FALSE, FALSE, <<TextMid, TextLow>>, {TextMid, TextLow})
PageHigh == MkPage(FALSE, FALSE, <<TextLow, TextHigh>>, {TextLow})
PageGood == MkPage(FALSE, FALSE, <<TextLow, TextGood, TextMid>>, {TextLow, TextGood, TextMid})

Pages == {PageEmpty, PageBroken, PageSeeImage, PageLow, PageMid, PageHigh, PageGood}

HttpErrorStatuses == {400, 503}

\* extract_ingredients(fetched.html) for each page a retrieval may return.
Extracted == [page \in Pages |-> extract_ingredients(page)]

\* The configurations default_search_engine builds, by number of engines
\* configured (0: the no-op search, 1: that engine alone, 2 or 3: a chain).
EngineCounts == 0..3

SearchResults == {[i \in 1..n |-> Url(i)] : n \in 0..MaxUrls}

\* =================================================================
\* source_harvester.py : SourceHarvester.process as a state machine
\* =================================================================

VARIABLES
    engines,        \* number of engines default_search_engine configured
    pc,             \* "start", "search", "loop", "done" (returned), "raised"
    market,         \* argument of the call
    query,          \* build_query(...)
    eng,            \* SearchEngineChain.search: index of the engine being asked
    urls,           \* what the search returned
    idx,            \* position in urls[:3] of the URL the for loop is at
    tries,          \* fetch_html attempts already failed for that URL
    attempts,       \* debug["attempts"]
    best_pending,   \* None or <<record>>
    best_rank,
    outcome,        \* None until process returns, then <<HarvestOutcome>>
    raised,         \* None, or <<message>> of the exception process let out
    canceled,       \* the caller has given the call up (process has no such input)
    requested,      \* history: the URLs retrieved, in the order each was first requested
    results,        \* history: what each URL tried produced, in the order tried
    calls,          \* how many calls of process this harvester has been given
    earlier         \* None, or <<[urls, results, outcome]>> of the first call, returned

VARIABLES
    ex_page,        \* None, or <<page>>: the html extract_ingredients is called with
    ex_result       \* None before the call returns, then <<its return value>>

VARIABLES
    p_map,          \* ParserEngine._map, shared by every call of parse
    p_call          \* for each caller, the locals of its call of parse

VARIABLES
    sp_text,        \* None, or <<text>>: the text _split_outside_parens is called with
    sp_i,           \* position of the character the for loop is at
    sp_st,          \* the locals tokens, buf, depth
    sp_cuts,        \* history: the positions after which buf was started afresh
    sp_result       \* None, or <<tokens>>: what the call returned

VARIABLES
    cn_in,          \* None, or <<text>>: the text clean_noise is called with
    cn_first,       \* None, or <<[text, notes]>>: what the call returned
    cn_second       \* None, or <<[text, notes]>>: clean_noise of the returned text

VARIABLES
    dm_html,        \* None, or <<html>>: the document extract_ingredients is called with
    dm_market,      \* the market argument of that call
    dm_pc,          \* where the call is: "unused", "called", "soup", "collected", "done"
    dm_soup,        \* soup, once the non-content elements are removed
    dm_candidates,  \* candidates, as _collect_candidates returned them
    dm_result,      \* None before the call returns, then <<its return value>>
    dm_text,        \* None, or <<text>>: the text verify_token_in_dom is called with
    dm_verified     \* None, or <<what that call returned>>

VARIABLES
    sl_text,        \* None, or <<text>>: the clean_text _split_ingredients is called with
    sl_pc,          \* where the call is: "unused", "called", "primary", "split", "done"
    sl_tokens,      \* tokens
    sl_slash,       \* history: whether '/' was given to _split_outside_parens as separator
    sl_result       \* None, or <<[tokens, sep_failed]>>: what the call returned

VARIABLES
    nc_in,          \* None, or <<text>>: the text both cleaners are called with
    nc_extract,     \* None, or <<what clean_noise of extract.py returned>>
    nc_parser       \* None, or <<the text clean_noise of ingredient_parser.py returned>>

VARIABLES
    tr_page,        \* None, or <<page>>: the page fetched for one URL of process
    tr_pc,          \* "unused", "fetched", "scored", "extracted", "done"
    tr_score,       \* None, or <<_feature_score of the page's block>>
    tr_extracted,   \* None, or <<what extract_ingredients returned>>
    tr_status       \* None, or <<"OK">> (returned at line 75), <<"kept">> (best_pending,
                    \* lines 84-94) or <<"no_extract">> (lines 60-62)

VARIABLES
    tk_mode,        \* "inline" or "rq": whether enqueue returns None or a job reference
    tk_force,       \* req.force
    tk_cands,       \* the candidate rows of the import selected by the request
    tk_task,        \* None, or <<status>> of the HarvestTask row
    tk_trs,         \* the task rows of the task, one per candidate row once added
    tk_pc,          \* create_task: "idle", "task", "loop", "returned", "failed"
    tk_i,           \* create_task: position of the second for loop
    tk_jobs,        \* positions of the rows whose job is queued and not yet run
    tk_calls,       \* history: the calls of harvest_row that have ended
    tk_snap,        \* get_task: None, or <<what lines 553-566 read>>
    tk_report       \* None, or <<status>> of the last answer of get_task

VARIABLES
    db_used,        \* whether the service is running
    db_ready,       \* _DB_READY
    db_error,       \* _DB_ERROR: None or <<message>>
    db_last_try,    \* _DB_LAST_TRY_AT
    db_lock,        \* _DB_INIT_LOCK: None, or <<the request that holds it>>
    db_clock,       \* what time.time() returns now
    db_req,         \* per request: where it is in _maybe_init_db, and its local now
    db_starts       \* history: the last two schema-creation attempts started, in order

evars == <<ex_page, ex_result>>
lvars == <<sl_text, sl_pc, sl_tokens, sl_slash, sl_result>>
nvars == <<nc_in, nc_extract, nc_parser>>
tvars == <<tr_page, tr_pc, tr_score, tr_extracted, tr_status>>
jvars == <<tk_mode, tk_force, tk_cands, tk_task, tk_trs, tk_pc, tk_i, tk_jobs, tk_calls,
          tk_snap, tk_report>>
bvars == <<db_used, db_ready, db_error, db_last_try, db_lock, db_clock, db_req, db_starts>>
dvars == <<dm_html, dm_market, dm_pc, dm_soup, dm_candidates, dm_result, dm_text,
          dm_verified>>
pvars == <<p_map, p_call>>
cvars == <<cn_in, cn_first, cn_second>>
svars == <<sp_text, sp_i, sp_st, sp_cuts, sp_result>>

kvars == <<calls, earlier>>
hvars == <<engines, pc, market, query, eng, urls, idx, tries, attempts, best_pending,
           best_rank, outcome, raised, canceled, requested, results, kvars>>

Brand == "Test"
ProductName == "P1"
Markets == {"US", "CN"}

HarvestInit ==
    /\ engines \in EngineCounts
    /\ pc = "start"
    /\ market = ""
    /\ query = ""
    /\ eng = 0
    /\ urls = <<>>
    /\ idx = 0
    /\ tries = 0
    /\ attempts = <<>>
    /\ best_pending = None
    /\ best_rank = InitialRank
    /\ outcome = None
    /\ raised = None
    /\ canceled = FALSE
    /\ requested = <<>>
    /\ results = <<>>
    /\ calls = IF pc = "unused" THEN 0 ELSE 1
    /\ earlier = None

\* Lines 45-46.
StartProcess ==
    /\ pc = "start"
    /\ \E m \in Markets :
         /\ market' = m
         /\ query' = build_query(m, Brand, ProductName)
    /\ pc' = "search"
    /\ eng' = 1
    /\ UNCHANGED <<engines, urls, idx, tries, attempts, best_pending, best_rank, outcome,
                   raised, canceled, requested, results>>

\* Lines 47-51: the search returned us.
\* Faulty variant of DebugAttempts: the list lives on and is handed on from
\* one call to the next.
DebugAttempts_Kept(previous) == previous

\* Line 48: debug = {..., "attempts": []}, a new list in every call.
DebugAttempts(previous) == <<>>

SearchReturned(us) ==
    /\ urls' = us
    /\ attempts' = DebugAttempts(attempts)
    /\ best_pending' = None
    /\ best_rank' = InitialRank
    /\ idx' = 1
    /\ tries' = 0
    /\ pc' = "loop"
    /\ UNCHANGED <<engines, market, query, eng, outcome, raised, canceled, requested, results>>

\* default_search_engine with no key configured: _NoopSearch.search.
NoopSearch ==
    /\ pc = "search"
    /\ engines = 0
    /\ SearchReturned(<<>>)

\* One engine configured: process calls it directly.
SingleEngineReturns ==
    /\ pc = "search"
    /\ engines = 1
    /\ \E us \in SearchResults : SearchReturned(us)

\* The engine raises (raise_for_status, a network error): line 47 has no handler.
SingleEngineRaises ==
    /\ pc = "search"
    /\ engines = 1
    /\ \E m \in ExcMessages : raised' = Some(m)
    /\ pc' = "raised"
    /\ UNCHANGED <<engines, market, query, eng, urls, idx, tries, attempts, best_pending,
                   best_rank, outcome, canceled, requested, results>>

\* SearchEngineChain.search: the engine at hand returns a non-empty list.
ChainEngineReturns ==
    /\ pc = "search"
    /\ engines >= 2
    /\ eng <= engines
    /\ \E us \in SearchResults : us # <<>> /\ SearchReturned(us)

\* ... returns an empty list: the loop goes on to the next engine.
ChainEngineEmpty ==
    /\ pc = "search"
    /\ engines >= 2
    /\ eng <= engines
    /\ eng' = eng + 1
    /\ UNCHANGED <<engines, pc, market, query, urls, idx, tries, attempts, best_pending,
                   best_rank, outcome, raised, canceled, requested, results>>

\* ... raises: except Exception: continue.
ChainEngineRaises ==
    /\ pc = "search"
    /\ engines >= 2
    /\ eng <= engines
    /\ \E m \in ExcMessages : eng' = eng + 1
    /\ UNCHANGED <<engines, pc, market, query, urls, idx, tries, attempts, best_pending,
                   best_rank, outcome, raised, canceled, requested, results>>

\* No engine of the chain returned anything: return [].
ChainExhausted ==
    /\ pc = "search"
    /\ engines >= 2
    /\ eng > engines
    /\ SearchReturned(<<>>)

\* The for loop has a URL to try.
\* Faulty variant of LoopUrls: the loop runs over every URL returned (for url in urls).
LoopUrls_Unsliced == urls

\* Line 53: urls[:3].
LoopUrls == Take(urls, TopK)

AtUrl == pc = "loop" /\ idx <= Len(LoopUrls)

\* One requests.get is issued for urls[idx]: the first one for it is logged.
IssueGet ==
    requested' = IF tries = 0 THEN Append(requested, urls[idx]) ELSE requested

\* What the world produced for one URL: the stage reached ("fetch" when
\* fetch_html raised, else "extract"), the status of the response, the
\* message of an exception, and the return value of extract_ingredients.
UrlResult(stage, status, exc, extracted) ==
    [url |-> urls[idx], stage |-> stage, status |-> status, exc |-> exc,
     extracted |-> extracted]

\* The except clause / continue: one diagnostic, next URL.
RecordError(err, res) ==
    /\ attempts' = Append(attempts, ErrorAttempt(urls[idx], err))
    /\ results' = Append(results, res)
    /\ idx' = idx + 1
    /\ tries' = 0
    /\ UNCHANGED <<engines, pc, market, query, eng, urls, best_pending, best_rank, outcome,
                   raised, canceled>>

\* fetch_html: requests.get raises; tenacity retries until the third attempt
\* has failed, then raises RetryError into process (lines 95-97).
FetchRaises ==
    /\ AtUrl
    /\ IssueGet
    /\ IF tries + 1 < FetchAttempts
       THEN /\ tries' = tries + 1
            /\ UNCHANGED <<engines, pc, market, query, eng, urls, idx, attempts,
                           best_pending, best_rank, outcome, raised, canceled, results>>
       ELSE RecordError(Truncated(RetryErrorMsg), UrlResult("fetch", None, Some(RetryErrorMsg), None))

\* Lines 56-58: a response with status >= 400 (returned without retry).
FetchHttpError ==
    /\ AtUrl
    /\ IssueGet
    /\ \E status \in HttpErrorStatuses :
         RecordError(StrMsg("http_" \o ToString(status)),
                     UrlResult("extract", Some(status), None, None))

\* Line 59 raises (the parser fails on the body): lines 95-97.
ExtractRaises ==
    /\ AtUrl
    /\ IssueGet
    /\ \E page \in Pages, m \in ExcMessages :
         /\ page.broken
         /\ RecordError(Truncated(m), UrlResult("extract", Some(200), Some(m), None))

\* Lines 60-62.
NoExtract ==
    /\ AtUrl
    /\ IssueGet
    /\ \E page \in Pages :
         /\ ~page.broken
         /\ Extracted[page] = None
         /\ RecordError(StrMsg("no_extract"), UrlResult("extract", Some(200), None, None))

\* Faulty variant of IsTrusted: the verification result is not consulted.
IsTrusted_Unverified(e) == e.score >= TrustedMin

\* Line 74.
IsTrusted(e) == e.verified_in_dom /\ e.score >= TrustedMin

\* Lines 64-82: a verified extraction of score >= 0.8 is returned at once.
ExtractTrusted ==
    /\ AtUrl
    /\ IssueGet
    /\ \E page \in Pages :
         /\ ~page.broken
         /\ Extracted[page] # None
         /\ LET e == Extracted[page][1]
                furl == FinalUrl(urls[idx])
                att == Append(attempts,
                              ExtractAttempt(furl, e.score, e.verified_in_dom, e.debug_hint))
            IN /\ IsTrusted(e)
               /\ attempts' = att
               /\ results' = Append(results, UrlResult("extract", Some(200), None, Some(e)))
               /\ outcome' = Some(HarvestOutcome(
                      "OK", Min(100, e.score), Some(e.text), Some(furl),
                      Some(classify_source_type(furl)),
                      Debug(query, urls, att, Some(furl), Some(e.debug_hint), None)))
    /\ pc' = "done"
    /\ tries' = 0
    /\ UNCHANGED <<engines, market, query, eng, urls, idx, best_pending, best_rank, raised,
                   canceled>>

Rank(e) == e.score + (IF e.verified_in_dom THEN VerifiedBonus ELSE 0)

\* Faulty variant of Outranks: >= instead of >, so a later URL takes over on a tie.
Outranks_OrEqual(rank, best) == rank >= best

\* Line 86.
Outranks(rank, best) == rank > best

\* Lines 64-73 and 84-94: an extraction that is not trusted is remembered if
\* it ranks above the best so far.
ExtractPending ==
    /\ AtUrl
    /\ IssueGet
    /\ \E page \in Pages :
         /\ ~page.broken
         /\ Extracted[page] # None
         /\ LET e == Extracted[page][1]
                furl == FinalUrl(urls[idx])
            IN /\ ~IsTrusted(e)
               /\ attempts' = Append(attempts,
                      ExtractAttempt(furl, e.score, e.verified_in_dom, e.debug_hint))
               /\ results' = Append(results, UrlResult("extract", Some(200), None, Some(e)))
               /\ IF Outranks(Rank(e), best_rank)
                  THEN /\ best_rank' = Rank(e)
                       /\ best_pending' = Some([confidence |-> e.score,
                                                verified |-> e.verified_in_dom,
                                                text |-> e.text, url |-> furl,
                                                hint |-> e.debug_hint])
                  ELSE UNCHANGED <<best_rank, best_pending>>
    /\ idx' = idx + 1
    /\ tries' = 0
    /\ UNCHANGED <<engines, pc, market, query, eng, urls, outcome, raised, canceled>>

\* Faulty variant of PendingConfidence: the upper clamp is missing.
PendingConfidence_NoCeiling(c) == Max(PendingFloor, c)

\* Line 106.
PendingConfidence(c) == Max(PendingFloor, Min(PendingCeil, c))

\* Faulty variant of NeedsSourceOutcome: the confidence floor of the PENDING branch is
\* carried into the NEEDS_SOURCE branch.
NeedsSourceOutcome_Floored(debug) ==
    HarvestOutcome("NEEDS_SOURCE", PendingFloor, None, None, None, debug)

\* Lines 113-120.
NeedsSourceOutcome(debug) == HarvestOutcome("NEEDS_SOURCE", 0, None, None, None, debug)

\* Lines 99-120: the URLs are exhausted.
LoopExit ==
    /\ pc = "loop"
    /\ idx > Len(LoopUrls)
    /\ outcome' =
         IF best_pending # None
         THEN LET b == best_pending[1]
              IN Some(HarvestOutcome(
                     "PENDING", PendingConfidence(b.confidence),
                     Some(b.text), Some(b.url), Some(classify_source_type(b.url)),
                     Debug(query, urls, attempts, Some(b.url), Some(b.hint),
                           Some(b.verified))))
         ELSE Some(NeedsSourceOutcome(Debug(query, urls, attempts, None, None, None)))
    /\ pc' = "done"
    /\ UNCHANGED <<engines, market, query, eng, urls, idx, tries, attempts, best_pending,
                   best_rank, raised, canceled, requested, results>>

\* The caller gives the call up while it is running.  process takes no
\* context, token or deadline, so nothing in it reads this.
Cancel ==
    /\ AtUrl
    /\ idx > 1
    /\ ~canceled
    /\ canceled' = TRUE
    /\ UNCHANGED <<engines, pc, market, query, eng, urls, idx, tries, attempts,
                   best_pending, best_rank, outcome, raised, requested, results>>

\* The call has returned and the caller calls process again on the same
\* SourceHarvester.  The object holds its search engine only (line 43); what
\* the model keeps of the locals of the first call is left as it is.
CallAgain ==
    /\ pc = "done"
    /\ calls = 1
    /\ earlier' = Some([urls |-> urls, results |-> results, outcome |-> outcome[1]])
    /\ calls' = 2
    /\ pc' = "start"
    /\ outcome' = None
    /\ requested' = <<>>
    /\ results' = <<>>
    /\ canceled' = FALSE
    /\ UNCHANGED <<engines, market, query, eng, urls, idx, tries, attempts, best_pending,
                   best_rank, raised>>

IsPrefix(s, u) == Len(s) <= Len(u) /\ s = SubSeq(u, 1, Len(s))

\* What the second call is given: the search result and the per-URL results
\* of the first call again, or an empty search result.  It is not given up.
SecondWorld ==
    calls = 2 =>
      /\ pc # "raised"
      /\ ~canceled
      /\ pc \in {"loop", "done"} =>
           \/ urls = earlier[1].urls /\ IsPrefix(results, earlier[1].results)
           \/ urls = <<>>

\* =================================================================
\* extract.py : a call of extract_ingredients on a drawn page
\* =================================================================

ExtractUnused == ex_page = None /\ ex_result = None

Words == {"water", "citric acid"}
Alphabet == {Sym(w, s) : w \in Words, s \in {"", ","}} \cup {Sym("silica", ",")}
Prefixes == {"=>", PageDump}

Bodies(n) == UNION {[1..k -> Alphabet] : k \in 1..n}

\* The texts drawn as candidates: up to MaxSymbols symbols, possibly led by
\* a script marker or a page dump.
Texts ==
    Bodies(MaxSymbols)
      \cup {<<Sym(p, "")>> \o b : p \in Prefixes, b \in Bodies(MaxSymbols - 1)}

\* A page with one candidate block, visible in the page or not.
ExtractInput ==
    /\ \E t \in Texts, visible \in BOOLEAN :
         ex_page = Some(MkPage(FALSE, FALSE, <<t>>, IF visible THEN {t} ELSE {}))
    /\ ex_result = None

ExtractCall ==
    /\ ex_page # None
    /\ ex_result = None
    /\ ex_result' = Some(extract_ingredients(ex_page[1]))
    /\ UNCHANGED ex_page

\* --------------------------- one URL of process, from the block to the status

TrustUnused ==
    /\ tr_page = None
    /\ tr_pc = "unused"
    /\ tr_score = None
    /\ tr_extracted = None
    /\ tr_status = None

\* The blocks of the fetched pages: with and without list separators, with
\* none to five of the common tokens.
TrustAlphabet ==
    {Sym(w, x) : w \in {"water", "glycerin", "citric acid"}, x \in {"", ","}}
      \cup {Sym("silica", ","), Sym("water", ";")}

TrustTexts == UNION {[1..n -> TrustAlphabet] : n \in 1..MaxTrustLen}

TrustInput ==
    /\ \E t \in TrustTexts, visible \in BOOLEAN :
         tr_page = Some(MkPage(FALSE, FALSE, <<t>>, IF visible THEN {t} ELSE {}))
    /\ tr_pc = "fetched"
    /\ tr_score = None
    /\ tr_extracted = None
    /\ tr_status = None

\* extract.py lines 152-175, on the block of the page.
TrustScore ==
    /\ tr_pc = "fetched"
    /\ tr_score' = Some(_feature_score(tr_page[1].cands[1]))
    /\ tr_pc' = "scored"
    /\ UNCHANGED <<tr_page, tr_extracted, tr_status>>

\* source_harvester.py line 59.
TrustExtract ==
    /\ tr_pc = "scored"
    /\ tr_extracted' = Some(extract_ingredients(tr_page[1]))
    /\ tr_pc' = "extracted"
    /\ UNCHANGED <<tr_page, tr_score, tr_status>>

\* Lines 60-62.
TrustNoExtract ==
    /\ tr_pc = "extracted"
    /\ tr_extracted[1] = None
    /\ tr_status' = Some("no_extract")
    /\ tr_pc' = "done"
    /\ UNCHANGED <<tr_page, tr_score, tr_extracted>>

\* Lines 64-82.
TrustReturned ==
    /\ tr_pc = "extracted"
    /\ tr_extracted[1] # None
    /\ IsTrusted(tr_extracted[1][1])
    /\ tr_status' = Some("OK")
    /\ tr_pc' = "done"
    /\ UNCHANGED <<tr_page, tr_score, tr_extracted>>

\* Lines 84-94.
TrustKept ==
    /\ tr_pc = "extracted"
    /\ tr_extracted[1] # None
    /\ ~IsTrusted(tr_extracted[1][1])
    /\ tr_status' = Some("kept")
    /\ tr_pc' = "done"
    /\ UNCHANGED <<tr_page, tr_score, tr_extracted>>

\* ------------------------------------------- extract_ingredients on a document

DomUnused ==
    /\ dm_html = None
    /\ dm_market = "US"
    /\ dm_pc = "unused"
    /\ dm_soup = <<>>
    /\ dm_candidates = <<>>
    /\ dm_result = None
    /\ dm_text = None
    /\ dm_verified = None

\* The payload of the script element of tests/test_extract.py.
ScriptPayload ==
    <<Sym("self.__next_f.push", "(["), Sym("1", ","), Sym("\"ingredients", ":"),
      Sym("water", ","), Sym("glycerin", ","), Sym("parfum", "\"]);")>>

Heading == Element("h2", FALSE, <<Sym("ingredients", "")>>, <<>>)

ScriptInDiv ==
    Element("div", FALSE, <<>>, <<Element("script", FALSE, ScriptPayload, <<>>)>>)

\* HTML_SCRIPT_ONLY of tests/test_extract.py.
HTML_SCRIPT_ONLY == <<Heading, ScriptInDiv>>

\* The elements documents are built from.
Elements ==
    {Heading,
     ScriptInDiv,
     Element("h3", FALSE, <<Sym("U+6210U+5206", "")>>, <<>>),
     Element("p", FALSE, <<Sym("free shipping", ","), Sym("easy returns", "")>>, <<>>),
     Element("p", FALSE,
             <<Sym("ingredients", ":"), Sym("water", ","), Sym("glycerin", ""),
               Sym("read more", "")>>, <<>>),
     Element("div", TRUE, <<Sym("fragrance", ";"), Sym("alcohol denat", ""), Sym("and", "")>>,
             <<Element("svg", FALSE, <<Sym("aqua", ","), Sym("sodium chloride", "")>>, <<>>)>>),
     Element("noscript", FALSE, <<>>,
             <<Element("p", FALSE, <<Sym("aqua", ","), Sym("citric acid", ","),
                                     Sym("ethanol", "")>>, <<>>)>>),
     Element("style", TRUE, <<Sym("parfum", ","), Sym("ethanol", ";")>>, <<>>),
     Element("span", FALSE,
             <<Sym("window.", ""), Sym("water", ","), Sym("glycerin", ","),
               Sym("aqua", "")>>, <<>>),
     Element("p", TRUE,
             <<Sym("water", ","), Sym("glycerin", ","), Sym("citric acid", ","),
               Sym("read more", ""), Sym("aqua", "")>>, <<>>),
     Element("p", TRUE,
             <<Sym("water", ","), Sym("read more", ""), Sym("glycerin", ","),
               Sym("aqua", "")>>, <<>>)}

Documents(n) == UNION {[1..k -> Elements] : k \in 0..n}

DomInput ==
    /\ \E empty \in BOOLEAN, body \in Documents(MaxElements) :
         /\ empty => body = <<>>
         /\ dm_html = Some(Html(empty, body))
    /\ dm_market \in {"US", "CN"}
    /\ dm_pc = "called"
    /\ dm_soup = <<>>
    /\ dm_candidates = <<>>
    /\ dm_result = None
    /\ dm_text = None
    /\ dm_verified = None

\* The texts verify_token_in_dom is called with on its own: the empty text,
\* a list, a label alone, and a list with a UI phrase late in it.
VerifyTexts ==
    {<<>>,
     <<Sym("water", ","), Sym("glycerin", "")>>,
     <<Sym("ingredients", ":")>>,
     <<Sym("water", ","), Sym("glycerin", ","), Sym("citric acid", ","),
       Sym("read more", ""), Sym("aqua", "")>>}

\* A call of verify_token_in_dom on its own, as tests/test_extract.py makes.
VerifyInput ==
    /\ \E empty \in BOOLEAN, body \in Documents(MaxElements - 1) :
         /\ empty => body = <<>>
         /\ dm_html = Some(Html(empty, body))
    /\ dm_text \in {Some(t) : t \in VerifyTexts}
    /\ dm_market = "US"
    /\ dm_pc = "verify"
    /\ dm_soup = <<>>
    /\ dm_candidates = <<>>
    /\ dm_result = None
    /\ dm_verified = None

\* Lines 127-136.
DomVerify ==
    /\ dm_pc = "verify"
    /\ dm_verified' = Some(VerifyInHtml(dm_html[1], dm_text[1]))
    /\ dm_pc' = "verified"
    /\ UNCHANGED <<dm_html, dm_market, dm_soup, dm_candidates, dm_result, dm_text>>

\* Lines 239-240.
DomEmpty ==
    /\ dm_pc = "called"
    /\ dm_html[1].empty
    /\ dm_result' = Some(None)
    /\ dm_pc' = "done"
    /\ UNCHANGED <<dm_html, dm_market, dm_soup, dm_candidates, dm_text, dm_verified>>

\* Lines 241-242.
DomParse ==
    /\ dm_pc = "called"
    /\ ~dm_html[1].empty
    /\ dm_soup' = _strip_non_content_tags(dm_html[1].body)
    /\ dm_pc' = "soup"
    /\ UNCHANGED <<dm_html, dm_market, dm_candidates, dm_result, dm_text, dm_verified>>

\* Lines 243-246.
DomCollect ==
    /\ dm_pc = "soup"
    /\ dm_candidates' = _collect_candidates(dm_soup, KeywordsFor(dm_market))
    /\ dm_pc' = "collected"
    /\ UNCHANGED <<dm_html, dm_market, dm_soup, dm_result, dm_text, dm_verified>>

\* Lines 247-280.
DomRank ==
    /\ dm_pc = "collected"
    /\ dm_result' = Some(extract_ingredients(PageOf(dm_html[1], dm_candidates)))
    /\ dm_pc' = "done"
    /\ UNCHANGED <<dm_html, dm_market, dm_soup, dm_candidates, dm_text, dm_verified>>

\* =================================================================
\* ingredient_parser.py : texts and clean_noise
\* =================================================================

(* A parser text is a sequence of symbols and stands for their              *)
(* concatenation: a symbol is a word, a punctuation character, a tag, or   *)
(* the space SP.  The tables below give, for the symbols used, what the    *)
(* character classes of the file's regular expressions decide.             *)
SP == " "
ZW == "U+200B"
UrlSym == "http://x"

AsciiWords ==
    {"water", "Water", "aqua", "Aqua", "glycerin", "Glycerin", "fragrance", "Fragrance",
     "niacinamide", "Niacinamide", "zinc", "Zinc", "pca", "PCA", "Pca", "phenoxyethanol",
     "Phenoxyethanol", "shea", "Shea", "butter", "Butter", "bakuchiol", "Bakuchiol",
     "eau", "Eau", "see", "See", "image", "ingredients", "Ingredients", "na", "Na",
     "and", "And", "etc", "Etc", "read", "Read", "more", "More"}
CjkWords == {"U+6C34", "U+73BBU+8272U+56E0", "U+89C1U+5305U+88C5"}
TagSyms == {"<br>", "<b>", "</b>"}
Punct ==
    {SP, ",", ";", ".", ":", "(", ")", "[", "]", "{", "}", "U+3010", "U+3011", "U+FF08",
     "U+FF09", "U+FF0C", "U+3001", "|", "/", "-", "#", "<", "b>", "B>", ZW}
Symbols == AsciiWords \cup CjkWords \cup TagSyms \cup Punct \cup {UrlSym}

\* The first / last character of the symbol is a \w character.
StartsW(x) == x \in AsciiWords \cup CjkWords \cup {UrlSym, "b>", "B>"}
EndsW(x) == x \in AsciiWords \cup CjkWords \cup {UrlSym}

\* str.lower() of a symbol.
LowerWord(w) ==
    CASE w \in {"Water"} -> "water"
      [] w = "Aqua" -> "aqua"
      [] w = "Glycerin" -> "glycerin"
      [] w = "Fragrance" -> "fragrance"
      [] w = "Niacinamide" -> "niacinamide"
      [] w = "Zinc" -> "zinc"
      [] w \in {"PCA", "Pca"} -> "pca"
      [] w = "Phenoxyethanol" -> "phenoxyethanol"
      [] w = "Shea" -> "shea"
      [] w = "Butter" -> "butter"
      [] w = "Bakuchiol" -> "bakuchiol"
      [] w = "Eau" -> "eau"
      [] w = "See" -> "see"
      [] w = "Ingredients" -> "ingredients"
      [] w = "Na" -> "na"
      [] w = "And" -> "and"
      [] w = "Etc" -> "etc"
      [] w = "Read" -> "read"
      [] w = "More" -> "more"
      [] w = "B>" -> "b>"
      [] OTHER -> w

LowerText(s) == [i \in 1..Len(s) |-> LowerWord(s[i])]

\* The elements of s at the positions I, in order.
Pick(s, I) ==
    LET n == Cardinality(I)
        at == [k \in 1..n |-> CHOOSE i \in I : Cardinality({j \in I : j < i}) = k - 1]
    IN [k \in 1..n |-> s[at[k]]]

\* str.strip(chars): the symbols of K at both ends are removed.
StripSet(s, K) ==
    LET keep == {i \in 1..Len(s) : s[i] \notin K}
    IN IF keep = {} THEN <<>>
       ELSE SubSeq(s, CHOOSE i \in keep : \A j \in keep : i <= j,
                      CHOOSE i \in keep : \A j \in keep : i >= j)

\* re.sub(r"\s+", " ", s)
CollapseSpaces(s) == Pick(s, {i \in 1..Len(s) : ~(s[i] = SP /\ i > 1 /\ s[i - 1] = SP)})

\* How many symbols from position i on are in K, consecutively.
RECURSIVE RunIn(_, _, _)
RunIn(s, i, K) == IF i <= Len(s) /\ s[i] \in K THEN 1 + RunIn(s, i + 1, K) ELSE 0

\* Line 276: the zero-width characters are dropped.
DropZeroWidth(s) == Pick(s, {i \in 1..Len(s) : s[i] # ZW})

\* _URL_RE.sub(" ", s): https?://[^\s)]+ takes everything up to a space or ')'.
RECURSIVE SubUrl(_, _)
SubUrl(s, i) ==
    IF i > Len(s) THEN <<>>
    ELSE IF s[i] = UrlSym
         THEN <<SP>> \o SubUrl(s, i + 1 + RunIn(s, i + 1, Symbols \ {SP, ")"}))
         ELSE <<s[i]>> \o SubUrl(s, i + 1)

\* Length of a match of #[A-Za-z0-9][A-Za-z0-9_-]{0,40} at position i, or 0
\* (the runs drawn stay below the 41 characters the pattern takes at most).
HashtagAt(s, i) ==
    IF i + 1 <= Len(s) /\ s[i] = "#" /\ s[i + 1] \in AsciiWords
    THEN 1 + RunIn(s, i + 1, AsciiWords \cup {"-"})
    ELSE 0

\* _HASHTAG_RE.sub(r"\1", s): the tag goes, the character before it stays.
RECURSIVE SubHashtag(_, _)
SubHashtag(s, i) ==
    IF i > Len(s) THEN <<>>
    ELSE IF i = 1 /\ HashtagAt(s, 1) > 0 THEN SubHashtag(s, 1 + HashtagAt(s, 1))
    ELSE IF s[i] \in {SP, ",", ";"} /\ HashtagAt(s, i + 1) > 0
         THEN <<s[i]>> \o SubHashtag(s, i + 1 + HashtagAt(s, i + 1))
    ELSE <<s[i]>> \o SubHashtag(s, i + 1)

\* Length of a match of \[\s*(?:more|less)\s*\] at position i, or 0.
BracketAt(s, i) ==
    IF i <= Len(s) /\ s[i] = "["
    THEN LET j == i + 1 + RunIn(s, i + 1, {SP})
             k == j + 1 + RunIn(s, j + 1, {SP})
         IN IF k <= Len(s) /\ LowerWord(s[j]) \in {"more", "less"} /\ s[k] = "]"
            THEN k + 1 - i ELSE 0
    ELSE 0

RECURSIVE SubBracket(_, _)
SubBracket(s, i) ==
    IF i > Len(s) THEN <<>>
    ELSE IF BracketAt(s, i) > 0 THEN <<SP>> \o SubBracket(s, i + BracketAt(s, i))
    ELSE <<s[i]>> \o SubBracket(s, i + 1)

\* The phrases of _UI_ARTIFACT_PHRASES_RE made of the words used here.
UiPhrases == {<<"read", "more">>, <<"read", "less">>, <<"see", "more">>, <<"see", "text">>}

\* Length of a match of a phrase (word, \s+, word) at position i, or 0.
UiPhraseAt(s, i) ==
    IF i <= Len(s)
    THEN LET a == RunIn(s, i + 1, {SP})
             j == i + 1 + a
         IN IF a >= 1 /\ j <= Len(s) /\ <<LowerWord(s[i]), LowerWord(s[j])>> \in UiPhrases
            THEN j + 1 - i ELSE 0
    ELSE 0

RECURSIVE SubUiPhrases(_, _)
SubUiPhrases(s, i) ==
    IF i > Len(s) THEN <<>>
    ELSE IF UiPhraseAt(s, i) > 0 THEN <<SP>> \o SubUiPhrases(s, i + UiPhraseAt(s, i))
    ELSE <<s[i]>> \o SubUiPhrases(s, i + 1)

\* s from position i on matches \s*(?:\.{3,})?\s*$ (dots allowed) or \s*$.
TailIsBlank(s, i, dots) ==
    LET j == i + RunIn(s, i, {SP})
        d == IF dots THEN RunIn(s, j, {"."}) ELSE 0
    IN IF d >= 3 THEN j + d + RunIn(s, j + d, {SP}) = Len(s) + 1
       ELSE j = Len(s) + 1

\* _TRUNCATION_END_RE matches from position i to the end of s.
TruncationAt(s, i) ==
    /\ i = 1 \/ ~EndsW(s[i - 1])
    /\ \/ /\ LowerWord(s[i]) = "and"
          /\ i = Len(s) \/ ~StartsW(s[i + 1])
          /\ TailIsBlank(s, i + 1, TRUE)
       \/ /\ LowerWord(s[i]) = "etc"
          /\ \/ TailIsBlank(s, i + 1, FALSE)
             \/ i + 1 <= Len(s) /\ s[i + 1] = "." /\ TailIsBlank(s, i + 2, FALSE)

\* _TRUNCATION_END_RE.sub("", s)
SubTruncation(s) ==
    LET at == {i \in 1..Len(s) : TruncationAt(s, i)}
    IN IF at = {} THEN s
       ELSE SubSeq(s, 1, (CHOOSE i \in at : \A j \in at : i <= j) - 1)

\* _ELLIPSIS_RE.sub(" ", s): runs of three or more dots.
RECURSIVE SubEllipsis(_, _)
SubEllipsis(s, i) ==
    IF i > Len(s) THEN <<>>
    ELSE LET d == RunIn(s, i, {"."})
         IN IF d >= 3 THEN <<SP>> \o SubEllipsis(s, i + d)
            ELSE IF d > 0 THEN SubSeq(s, i, i + d - 1) \o SubEllipsis(s, i + d)
            ELSE <<s[i]>> \o SubEllipsis(s, i + 1)

\* The characters of the final str.strip (line 323) and of _preprocess.
EdgePunct == {".", SP, ";", ","}

\* notes.append(msg) when a substitution changed the text.
Note(msg, a, b) == [msg |-> msg, a |-> a, b |-> b]
NoteIf(changed, msg) == IF changed THEN <<Note(msg, <<>>, <<>>)>> ELSE <<>>

clean_noise(text) ==
    LET s0 == StripSet(text, {SP})
    IN IF s0 = <<>> THEN [text |-> <<>>, notes |-> <<>>]
       ELSE
       LET s1 == DropZeroWidth(s0)
           s2 == SubUrl(s1, 1)
           s3 == SubHashtag(s2, 1)
           s4 == SubBracket(s3, 1)
           s5 == SubUiPhrases(s4, 1)
           s6 == SubTruncation(s5)
           s7 == SubEllipsis(s6, 1)
           s8 == SubTruncation(s7)
           s9 == StripSet(CollapseSpaces(s8), {SP})
       IN [text |-> StripSet(StripSet(s9, {SP}), EdgePunct),
           notes |-> NoteIf(s1 # s0, "Removed zero-width spaces")
                     \o NoteIf(s2 # s1, "Stripped URL(s)")
                     \o NoteIf(s3 # s2, "Removed marketing hashtag(s)")
                     \o NoteIf(s4 # s3, "Removed UI bracket token(s)")
                     \o NoteIf(s5 # s4, "Removed UI phrase(s)")
                     \o NoteIf(s6 # s5, "Removed truncation ending")
                     \o NoteIf(s7 # s6, "Removed ellipsis artifact(s)")
                     \o NoteIf(s8 # s7, "Removed truncation ending")]

\* ------------------------------------------ a call of clean_noise, twice

CleanUnused == cn_in = None /\ cn_first = None /\ cn_second = None

\* The symbols the texts given to clean_noise are drawn from.
CleanAlphabet ==
    {SP, "water", "and", "etc", ".", ",", "read", "more", "#", UrlSym, ZW, "[", "]"}

CleanTexts == UNION {[1..n -> CleanAlphabet] : n \in 0..MaxCleanLen}

CleanInput ==
    /\ cn_in \in {Some(t) : t \in CleanTexts}
    /\ cn_first = None
    /\ cn_second = None

CleanOnce ==
    /\ cn_in # None
    /\ cn_first = None
    /\ cn_first' = Some(clean_noise(cn_in[1]))
    /\ UNCHANGED <<cn_in, cn_second>>

CleanAgain ==
    /\ cn_first # None
    /\ cn_second = None
    /\ cn_second' = Some(clean_noise(cn_first[1].text))
    /\ UNCHANGED <<cn_in, cn_first>>

\* ------------------------- the two clean_noise functions on one text

NoiseUnused == nc_in = None /\ nc_extract = None /\ nc_parser = None

\* The symbols of a word of an extract text.
WordSyms(w) ==
    IF w = "" THEN <<>>
    ELSE IF w = "read more" THEN <<"read", SP, "more">>
    ELSE IF w = "see image" THEN <<"see", SP, "image">>
    ELSE <<w>>

\* An extract text as a parser text: the same characters.
RECURSIVE AsParserText(_)
AsParserText(t) ==
    IF t = <<>> THEN <<>>
    ELSE LET x == t[1]
             one == WordSyms(x.w) \o (IF x.s = "" THEN <<>> ELSE <<x.s>>)
             rest == AsParserText(Tail(t))
         IN IF rest = <<>> THEN one ELSE one \o <<SP>> \o rest

\* The string a parser text stands for.
RECURSIVE AsString(_)
AsString(s) == IF s = <<>> THEN "" ELSE s[1] \o AsString(Tail(s))

\* The texts both cleaners are given.
NoiseAlphabet ==
    {Sym(w, x) : w \in {"water", "and", "etc", "read more", "see image"}, x \in {"", ","}}
      \cup {Sym("etc", ".")}

NoiseInput ==
    /\ nc_in \in {Some(t) : t \in UNION {[1..n -> NoiseAlphabet] : n \in 0..MaxNoiseLen}}
    /\ nc_extract = None
    /\ nc_parser = None

\* extract.py lines 71-95.
NoiseExtract ==
    /\ nc_in # None
    /\ nc_extract = None
    /\ nc_extract' = Some(AsString(AsParserText(extract_clean_noise(nc_in[1]))))
    /\ UNCHANGED <<nc_in, nc_parser>>

\* ingredient_parser.py lines 259-324.
NoiseParser ==
    /\ nc_in # None
    /\ nc_parser = None
    /\ nc_parser' = Some(AsString(clean_noise(AsParserText(nc_in[1])).text))
    /\ UNCHANGED <<nc_in, nc_extract>>

\* =================================================================
\* ingredient_parser.py : pre-processing and tokenization
\* =================================================================

\* len() of a symbol.
WordChars(w) ==
    IF w \in {"U+6C34", "U+FF08", "U+FF09", "U+3010", "U+3011", ZW} THEN 1
    ELSE IF w \in {"U+73BBU+8272U+56E0", "U+89C1U+5305U+88C5"} THEN 3
    ELSE Len(w)

\* Number of matches of [A-Za-z0-9]+ inside a symbol, and whether its first
\* and last characters are of that class.
AlnumRuns(w) ==
    IF w \in AsciiWords \cup TagSyms \cup {"b>", "B>"} THEN 1
    ELSE IF w = UrlSym THEN 2
    ELSE 0
StartsAlnum(w) == w \in AsciiWords \cup {UrlSym, "b>", "B>"}
EndsAlnum(w) == w \in AsciiWords \cup {UrlSym}

\* re.search(r"[A-Z0-9]", w)
HasUpperOrDigit(w) ==
    w \in {"Water", "Aqua", "Glycerin", "Fragrance", "Niacinamide", "Zinc", "PCA", "Pca",
           "Phenoxyethanol", "Shea", "Butter", "Bakuchiol", "Eau", "See", "Ingredients",
           "Na", "And", "Etc", "Read", "More", "B>"}

\* w[:1].upper() + w[1:]
CapFirst(w) ==
    CASE w = "water" -> "Water"
      [] w = "aqua" -> "Aqua"
      [] w = "glycerin" -> "Glycerin"
      [] w = "fragrance" -> "Fragrance"
      [] w = "niacinamide" -> "Niacinamide"
      [] w = "zinc" -> "Zinc"
      [] w = "pca" -> "Pca"
      [] w = "phenoxyethanol" -> "Phenoxyethanol"
      [] w = "shea" -> "Shea"
      [] w = "butter" -> "Butter"
      [] w = "bakuchiol" -> "Bakuchiol"
      [] w = "eau" -> "Eau"
      [] w = "see" -> "See"
      [] w = "ingredients" -> "Ingredients"
      [] w = "na" -> "Na"
      [] w = "and" -> "And"
      [] w = "etc" -> "Etc"
      [] w = "read" -> "Read"
      [] w = "more" -> "More"
      [] w = "b>" -> "B>"
      [] OTHER -> w

IsTagWord(w) == w \in TagSyms
IsCjkWord(w) == w \in CjkWords

\* Of INVALID_EXACT, the entries that are one word.
INVALID_EXACT == {<<"na">>, <<"none">>, <<"null">>, <<"nan">>}
\* Of INVALID_PHRASES_EN and INVALID_PHRASES_ZH, the entries used here.
INVALID_PHRASES == {<<"see", SP, "image">>, <<"U+89C1U+5305U+88C5">>}

\* `p in s` for symbol sequences.
Contains(s, p) ==
    \E i \in 1..(Len(s) - Len(p) + 1) : SubSeq(s, i, i + Len(p) - 1) = p

\* value is None or <<text>>.
_coerce_text(value) ==
    IF value = None THEN <<>>
    ELSE LET s == StripSet(value[1], {SP})
         IN IF s = <<>> \/ LowerText(s) \in INVALID_EXACT THEN <<>> ELSE s

\* LABEL_PREFIX_RE.sub("", s): a leading "Ingredients:" / "INCI:" label.
LabelWords == {"ingredients", "ingredient", "inci"}
StripLabel(s) ==
    LET a == 1 + RunIn(s, 1, {SP})
        j == a + 1 + RunIn(s, a + 1, {SP})
    IN IF j <= Len(s) /\ LowerWord(s[a]) \in LabelWords /\ s[j] = ":"
       THEN SubSeq(s, j + 1 + RunIn(s, j + 1, {SP}), Len(s))
       ELSE s

_preprocess(raw) ==
    LET s == StripLabel(StripSet(raw, {SP}))
    IN StripSet(CollapseSpaces(StripSet(StripSet(s, {SP}), EdgePunct)), {SP})

\* Faulty variant of _looks_invalid_blob: the phrases are not looked for.
_looks_invalid_blob_NoPhrases(text) ==
    LET t == StripSet(text, {SP})
    IN t = <<>> \/ LowerText(t) \in INVALID_EXACT

_looks_invalid_blob(text) ==
    LET t == StripSet(text, {SP})
    IN \/ t = <<>>
       \/ LowerText(t) \in INVALID_EXACT
       \/ \E p \in INVALID_PHRASES : Contains(LowerText(t), p)

openers == {"(", "U+FF08", "[", "U+3010", "{"}
closers == {")", "U+FF09", "]", "U+3011", "}"}
\* Of the separators of _split_ingredients, the ones used here.
separators == {",", "U+FF0C", "U+3001", ";", "|"}

\* The locals of _split_outside_parens before the loop.
SplitStart == [tokens |-> <<>>, buf |-> <<>>, depth |-> 0]

\* tokens.append(token) if token.
AppendToken(tokens, buf) ==
    IF StripSet(buf, {SP}) = <<>> THEN tokens ELSE Append(tokens, StripSet(buf, {SP}))

\* Faulty variant of CloserCloses: a closer is counted at depth 0 too.
CloserCloses_Always(ch, depth) == ch \in closers

\* Line 396.
CloserCloses(ch, depth) == ch \in closers /\ depth > 0

\* Lines 392-408: one iteration of the loop over the characters.
SplitStep(st, ch, seps) ==
    IF ch \in openers
    THEN [st EXCEPT !.depth = st.depth + 1, !.buf = Append(st.buf, ch)]
    ELSE IF CloserCloses(ch, st.depth)
    THEN [st EXCEPT !.depth = st.depth - 1, !.buf = Append(st.buf, ch)]
    ELSE IF st.depth = 0 /\ ch \in seps
    THEN [st EXCEPT !.tokens = AppendToken(st.tokens, st.buf), !.buf = <<>>]
    ELSE [st EXCEPT !.buf = Append(st.buf, ch)]

RECURSIVE SplitLoop(_, _, _, _)
SplitLoop(st, text, i, seps) ==
    IF i > Len(text) THEN st ELSE SplitLoop(SplitStep(st, text[i], seps), text, i + 1, seps)

_split_outside_parens(text, seps) ==
    LET st == SplitLoop(SplitStart, text, 1, seps)
    IN AppendToken(st.tokens, st.buf)

\* ---------------------------------- a call of _split_outside_parens

SplitUnused ==
    /\ sp_text = None
    /\ sp_i = 0
    /\ sp_st = SplitStart
    /\ sp_cuts = {}
    /\ sp_result = None

\* The characters the texts given to the tokenizer are drawn from.
SplitAlphabet == {"a", SP, ",", "(", ")", "U+3010", "}"}

SplitInput ==
    /\ sp_text \in {Some(t) : t \in UNION {[1..n -> SplitAlphabet] : n \in 0..MaxSplitLen}}
    /\ sp_i = 1
    /\ sp_st = SplitStart
    /\ sp_cuts = {}
    /\ sp_result = None

\* Lines 391-408: the loop takes the next character.  A character after
\* which buf is empty ended a token (every other character is appended).
SplitChar ==
    /\ sp_text # None
    /\ sp_i <= Len(sp_text[1])
    /\ sp_st' = SplitStep(sp_st, sp_text[1][sp_i], separators)
    /\ sp_cuts' = IF sp_st'.buf = <<>> THEN sp_cuts \cup {sp_i} ELSE sp_cuts
    /\ sp_i' = sp_i + 1
    /\ UNCHANGED <<sp_text, sp_result>>

\* Lines 410-413: the last token and the return.
SplitEnd ==
    /\ sp_text # None
    /\ sp_i > Len(sp_text[1])
    /\ sp_result = None
    /\ sp_result' = Some(AppendToken(sp_st.tokens, sp_st.buf))
    /\ UNCHANGED <<sp_text, sp_i, sp_st, sp_cuts>>

\* Faulty variant of HasSpacedSlash: any '/' will do.
HasSpacedSlash_Any(tok) == \E i \in 1..Len(tok) : tok[i] = "/"

\* re.search(r"\s/\s", tok)
HasSpacedSlash(tok) ==
    \E i \in 1..(Len(tok) - 2) : tok[i] = SP /\ tok[i + 1] = "/" /\ tok[i + 2] = SP

\* A closing tag read character by character holds a '/'.
RECURSIVE SlashChars(_)
SlashChars(tok) ==
    IF tok = <<>> THEN <<>>
    ELSE (IF Head(tok) = "</b>" THEN <<"<", "/", "b>">> ELSE <<Head(tok)>>)
         \o SlashChars(Tail(tok))

\* Lines 433-436 for one token.
NormalizeToken(tok) ==
    LET s == StripSet(StripSet(tok, {SP}), {SP, "-"})
    IN StripSet(CollapseSpaces(StripSet(StripSet(s, {SP}), EdgePunct)), {SP})

NonEmptyToken(tok) == tok # <<>>

\* len(blob)
TokenLen(tok) ==
    IF tok = <<>> THEN 0
    ELSE SumOver([i \in 1..Len(tok) |-> WordChars(tok[i])], 1..Len(tok))

\* len(re.findall(r"[A-Za-z0-9]+", blob))
Wordish(tok) ==
    IF tok = <<>> THEN 0
    ELSE SumOver([i \in 1..Len(tok) |-> AlnumRuns(tok[i])], 1..Len(tok))
         - Cardinality({i \in 1..(Len(tok) - 1) : EndsAlnum(tok[i]) /\ StartsAlnum(tok[i + 1])})

\* Lines 442-447.
BlobLen == 80
BlobWords == 6
\* Faulty variant of SepFailed: the word count is not looked at.
SepFailed_LengthOnly(tokens) == Len(tokens) = 1 /\ TokenLen(tokens[1]) >= BlobLen

SepFailed(tokens) ==
    Len(tokens) = 1 /\ (TokenLen(tokens[1]) >= BlobLen \/ Wordish(tokens[1]) >= BlobWords)

_split_ingredients(clean_text) ==
    LET t == StripSet(clean_text, {SP})
    IN IF t = <<>> THEN [tokens |-> <<>>, sep_failed |-> FALSE]
       ELSE LET first == _split_outside_parens(t, separators)
                tokens == IF Len(first) = 1 /\ HasSpacedSlash(first[1])
                          THEN _split_outside_parens(SlashChars(first[1]), {"/"})
                          ELSE first
                normalized ==
                    SelectSeq([i \in 1..Len(tokens) |-> NormalizeToken(tokens[i])],
                              NonEmptyToken)
            IN [tokens |-> normalized, sep_failed |-> SepFailed(normalized)]

\* ------------------------------------------ a call of _split_ingredients

SlashUnused ==
    /\ sl_text = None
    /\ sl_pc = "unused"
    /\ sl_tokens = <<>>
    /\ sl_slash = FALSE
    /\ sl_result = None

\* The characters the texts given to _split_ingredients are drawn from.
SlashAlphabet == {"a", SP, "/", ",", "(", ")"}

SlashInput ==
    /\ \E n \in 0..MaxSlashLen : \E t \in [1..n -> SlashAlphabet] : sl_text = Some(t)
    /\ sl_pc = "called"
    /\ sl_tokens = <<>>
    /\ sl_slash = FALSE
    /\ sl_result = None

\* Lines 421-423.
SlashBlank ==
    /\ sl_pc = "called"
    /\ StripSet(sl_text[1], {SP}) = <<>>
    /\ sl_result' = Some([tokens |-> <<>>, sep_failed |-> FALSE])
    /\ sl_pc' = "done"
    /\ UNCHANGED <<sl_text, sl_tokens, sl_slash>>

\* Line 425.
SlashPrimary ==
    /\ sl_pc = "called"
    /\ StripSet(sl_text[1], {SP}) # <<>>
    /\ sl_tokens' = _split_outside_parens(StripSet(sl_text[1], {SP}), separators)
    /\ sl_pc' = "primary"
    /\ UNCHANGED <<sl_text, sl_slash, sl_result>>

\* Line 428.
SecondaryWanted(tokens) ==
    IF Len(tokens) = 1 THEN HasSpacedSlash(tokens[1]) ELSE FALSE

\* Lines 428-429.
SlashSecondary ==
    /\ sl_pc = "primary"
    /\ SecondaryWanted(sl_tokens)
    /\ sl_tokens' = _split_outside_parens(SlashChars(sl_tokens[1]), {"/"})
    /\ sl_slash' = TRUE
    /\ sl_pc' = "split"
    /\ UNCHANGED <<sl_text, sl_result>>

SlashSkipped ==
    /\ sl_pc = "primary"
    /\ ~SecondaryWanted(sl_tokens)
    /\ sl_pc' = "split"
    /\ UNCHANGED <<sl_text, sl_tokens, sl_slash, sl_result>>

\* Lines 431-448.
SlashNormalize ==
    /\ sl_pc = "split"
    /\ LET normalized ==
               SelectSeq([i \in 1..Len(sl_tokens) |-> NormalizeToken(sl_tokens[i])],
                         NonEmptyToken)
       IN sl_result' = Some([tokens |-> normalized, sep_failed |-> SepFailed(normalized)])
    /\ sl_pc' = "done"
    /\ UNCHANGED <<sl_text, sl_tokens, sl_slash>>

\* re.sub(r"<[^>]{1,80}>", "", s).strip(), and the tags it removed.
RemovedTags(tok) == SelectSeq(tok, IsTagWord)
NotTagWord(w) == ~IsTagWord(w)
_strip_angle_brackets(tok) == StripSet(SelectSeq(tok, NotTagWord), {SP})

_contains_cjk(tok) == \E i \in 1..Len(tok) : IsCjkWord(tok[i])

\* re.sub(r"\([^)]*\)", "", s)
RECURSIVE DropParenthetical(_, _)
DropParenthetical(s, i) ==
    IF i > Len(s) THEN <<>>
    ELSE LET n == RunIn(s, i + 1, Symbols \ {")"})
         IN IF s[i] = "(" /\ i + 1 + n <= Len(s)
            THEN DropParenthetical(s, i + 2 + n)
            ELSE <<s[i]>> \o DropParenthetical(s, i + 1)

AsciiParen(w) == IF w = "U+FF08" THEN "(" ELSE IF w = "U+FF09" THEN ")" ELSE w
KeySpace(w) == IF w \in {"/", ".", ":"} THEN SP ELSE w

_normalize_lookup_key(text) ==
    LET s0 == LowerText(StripSet(text, {SP}))
        s1 == [i \in 1..Len(s0) |-> AsciiParen(s0[i])]
        s2 == DropParenthetical(SelectSeq(s1, NotTagWord), 1)
        s3 == [i \in 1..Len(s2) |-> KeySpace(s2[i])]
    IN StripSet(CollapseSpaces(s3), {SP})

NotSpace(w) == w # SP

\* Faulty variant of TitleWords: the first letter of every symbol is raised
\* and the spaces are dropped.
TitleWords_Joined(t) ==
    LET w == SelectSeq(t, NotSpace) IN [i \in 1..Len(w) |-> CapFirst(w[i])]

\* " ".join(w[:1].upper() + w[1:] for w in t.split())
TitleWords(t) ==
    LET c == CollapseSpaces(t)
    IN [i \in 1..Len(c) |-> IF i = 1 \/ c[i - 1] = SP THEN CapFirst(c[i]) ELSE c[i]]

_canonicalize_unknown_english(token) ==
    LET t == StripSet(token, {SP})
    IN IF t = <<>> THEN <<>>
       ELSE IF \E i \in 1..Len(t) : HasUpperOrDigit(t[i]) \/ t[i] \in {"-", "/"}
       THEN <<CapFirst(t[1])>> \o Tail(t)
       ELSE TitleWords(t)

\* =================================================================
\* ingredient_parser.py : ParserEngine
\* =================================================================

\* Entries of COMMON_INGREDIENTS_DB, in the order of the file.
COMMON_INGREDIENTS_DB ==
    << [k |-> <<"water">>, v |-> <<"Aqua">>],
       [k |-> <<"aqua">>, v |-> <<"Aqua">>],
       [k |-> <<"eau">>, v |-> <<"Aqua">>],
       [k |-> <<"water", "/", "aqua", "/", "eau">>, v |-> <<"Aqua">>],
       [k |-> <<"water", SP, "aqua", SP, "eau">>, v |-> <<"Aqua">>],
       [k |-> <<"U+6C34">>, v |-> <<"Aqua">>],
       [k |-> <<"glycerin">>, v |-> <<"Glycerin">>],
       [k |-> <<"fragrance">>, v |-> <<"Parfum">>] >>

\* norm_map.setdefault(nk, v)
SetDefault(map, k, v) ==
    IF k \in DOMAIN map THEN map
    ELSE [x \in DOMAIN map \cup {k} |-> IF x = k THEN v ELSE map[x]]

\* Lines 493-500: the loop of the constructor over the first n entries.
RECURSIVE NormMap(_, _)
NormMap(raw_map, n) ==
    IF n = 0 THEN <<>>
    ELSE LET nk == _normalize_lookup_key(raw_map[n].k)
             before == NormMap(raw_map, n - 1)
         IN IF nk = <<>> THEN before ELSE SetDefault(before, nk, raw_map[n].v)

\* ParserEngine(): self._map once __init__ has returned.
EngineMap == NormMap(COMMON_INGREDIENTS_DB, Len(COMMON_INGREDIENTS_DB))

\* self._map.get(key)
MapGet(map, key) == IF key \in DOMAIN map THEN Some(map[key]) ELSE None

Callers == {1, 2}

SepPenalty == 50
CjkPenalty == 10
ReviewBelow == 60

\* The locals of one call of parse.
Frame(pcv, raw) ==
    [pc |-> pcv, raw |-> raw, clean |-> <<>>, noise_notes |-> <<>>, tokens |-> <<>>,
     sep_failed |-> FALSE, i |-> 0, confidence |-> 0, order |-> 0, parsed |-> <<>>,
     unrecognized |-> <<>>, notes |-> <<>>, review_items |-> <<>>, result |-> None]

ParseUnused == p_map = EngineMap /\ p_call = [c \in Callers |-> Frame("unused", None)]

\* Faulty variant of ParsedIngredient: every uncertain entry is flagged for review.
ParsedIngredient_Reviewed(order, standard_name, original_text, uncertain, needs_review) ==
    [order |-> order, standard_name |-> standard_name, original_text |-> original_text,
     uncertain |-> uncertain, needs_review |-> uncertain]

ParsedIngredient(order, standard_name, original_text, uncertain, needs_review) ==
    [order |-> order, standard_name |-> standard_name, original_text |-> original_text,
     uncertain |-> uncertain, needs_review |-> needs_review]

\* "; ".join(p.standard_name for p in parsed if p.standard_name)
RECURSIVE JoinNames(_)
JoinNames(parsed) ==
    IF parsed = <<>> THEN <<>>
    ELSE LET rest == JoinNames(Tail(parsed))
             name == Head(parsed).standard_name
         IN IF name = <<>> THEN rest
            ELSE IF rest = <<>> THEN name
            ELSE name \o <<";", SP>> \o rest

ParseResult(status, confidence, parsed, unrecognized, notes, review_items) ==
    [parse_status |-> status, parse_confidence |-> confidence,
     inci_list |-> JoinNames(parsed), ingredients |-> parsed,
     unrecognized_tokens |-> unrecognized, normalization_notes |-> notes,
     needs_review |-> review_items]

NeedsSource == ParseResult("NEEDS_SOURCE", 0, <<>>, <<>>, <<>>, <<>>)

\* Lines 504-506.
Cleaned(f) ==
    LET cn == clean_noise(_preprocess(_coerce_text(f.raw)))
    IN [f EXCEPT !.clean = cn.text, !.noise_notes = cn.notes, !.pc = "cleaned"]

ParseClean(c) ==
    /\ p_call[c].pc = "call"
    /\ p_call' = [p_call EXCEPT ![c] = Cleaned(@)]
    /\ UNCHANGED p_map

\* Lines 509-517 and 521-529.
Rejected(f) == [f EXCEPT !.result = Some(NeedsSource), !.pc = "done"]

\* Lines 508-517: the cleaned text is empty, a placeholder or a "no data" phrase.
ParseInvalidBlob(c) ==
    /\ p_call[c].pc = "cleaned"
    /\ _looks_invalid_blob(p_call[c].clean)
    /\ p_call' = [p_call EXCEPT ![c] = Rejected(@)]
    /\ UNCHANGED p_map

\* Lines 519-529: tokenization leaves no token.
ParseNoTokens(c) ==
    /\ p_call[c].pc = "cleaned"
    /\ ~_looks_invalid_blob(p_call[c].clean)
    /\ _split_ingredients(p_call[c].clean).tokens = <<>>
    /\ p_call' = [p_call EXCEPT ![c] = Rejected(@)]
    /\ UNCHANGED p_map

\* Lines 519, 531-542.
Tokenized(f) ==
    LET sp == _split_ingredients(f.clean)
    IN [f EXCEPT !.tokens = sp.tokens,
                 !.sep_failed = sp.sep_failed,
                 !.confidence = 100 - (IF sp.sep_failed THEN SepPenalty ELSE 0),
                 !.notes = f.noise_notes,
                 !.order = 1,
                 !.i = 1,
                 !.pc = "loop"]

ParseTokenize(c) ==
    /\ p_call[c].pc = "cleaned"
    /\ ~_looks_invalid_blob(p_call[c].clean)
    /\ _split_ingredients(p_call[c].clean).tokens # <<>>
    /\ p_call' = [p_call EXCEPT ![c] = Tokenized(@)]
    /\ UNCHANGED p_map

\* The loop of line 543 is at a token.
AtToken(f) == f.pc = "loop" /\ f.i <= Len(f.tokens)

\* token_before and tok of the iteration.
TokenBefore(f) == f.tokens[f.i]
Tok(f) == _strip_angle_brackets(TokenBefore(f))

\* Lines 545-547.
TagNotes(f) ==
    IF RemovedTags(TokenBefore(f)) # <<>>
    THEN Append(f.notes, Note("Removed tag(s)", RemovedTags(TokenBefore(f)), TokenBefore(f)))
    ELSE f.notes

\* Faulty variant of OrderAfterDrop: a dropped token takes an order number.
OrderAfterDrop_Counted(order) == order + 1

\* Lines 549-550: `continue` leaves order as it is.
OrderAfterDrop(order) == order

Dropped(f) == [f EXCEPT !.notes = TagNotes(f), !.order = OrderAfterDrop(@), !.i = @ + 1]

\* Lines 545-550: nothing is left of the token once its tags are stripped.
TokenDropped(c) ==
    /\ AtToken(p_call[c])
    /\ Tok(p_call[c]) = <<>>
    /\ p_call' = [p_call EXCEPT ![c] = Dropped(@)]
    /\ UNCHANGED p_map

\* if mapped: is false.
Unmapped(f, map) ==
    LET mapped == MapGet(map, _normalize_lookup_key(Tok(f)))
    IN IF mapped = None THEN TRUE ELSE mapped[1] = <<>>

\* Lines 556-562.
Mapped(f, map) ==
    LET key == _normalize_lookup_key(Tok(f))
        standard == map[key]
    IN [f EXCEPT !.notes = IF _normalize_lookup_key(standard) # key
                           THEN Append(TagNotes(f), Note("Mapped", Tok(f), standard))
                           ELSE TagNotes(f),
                 !.parsed = Append(@, ParsedIngredient(f.order, standard, Tok(f), FALSE, FALSE)),
                 !.order = @ + 1,
                 !.i = @ + 1]

\* Lines 552-562: the dictionary has the key.
TokenMapped(c) ==
    /\ AtToken(p_call[c])
    /\ Tok(p_call[c]) # <<>>
    /\ ~Unmapped(p_call[c], p_map)
    /\ p_call' = [p_call EXCEPT ![c] = Mapped(@, p_map)]
    /\ UNCHANGED p_map

\* Faulty variant of _append_unique: the membership test is left out.
_append_unique_Always(items, value) == Append(items, value)

\* items.append(value) unless value in items.
_append_unique(items, value) ==
    IF \E k \in 1..Len(items) : items[k] = value THEN items ELSE Append(items, value)

\* Lines 566-576.
CjkMissed(f) ==
    [f EXCEPT !.notes = TagNotes(f),
              !.unrecognized = _append_unique(@, Tok(f)),
              !.review_items =
                  Append(@, [original_text |-> Tok(f), issue |-> "No INCI mapping found"]),
              !.confidence = @ - CjkPenalty,
              !.parsed = Append(@, ParsedIngredient(f.order, Tok(f), Tok(f), TRUE, TRUE)),
              !.order = @ + 1,
              !.i = @ + 1]

\* Lines 565-576: no mapping and the token has CJK characters.
TokenCjkMiss(c) ==
    /\ AtToken(p_call[c])
    /\ Tok(p_call[c]) # <<>>
    /\ Unmapped(p_call[c], p_map)
    /\ _contains_cjk(Tok(p_call[c]))
    /\ p_call' = [p_call EXCEPT ![c] = CjkMissed(@)]
    /\ UNCHANGED p_map

\* Lines 578-582.
LatinMissed(f) ==
    LET standard == _canonicalize_unknown_english(Tok(f))
    IN IF standard = <<>> THEN [f EXCEPT !.notes = TagNotes(f), !.i = @ + 1]
       ELSE [f EXCEPT !.notes = TagNotes(f),
                      !.unrecognized = _append_unique(@, Tok(f)),
                      !.parsed = Append(@, ParsedIngredient(f.order, standard, Tok(f),
                                                            TRUE, FALSE)),
                      !.order = @ + 1,
                      !.i = @ + 1]

\* Faulty variant of MapAfterMiss: the canonical form of an unknown name is
\* remembered in the dictionary.
MapAfterMiss_Cached(map, f) ==
    IF _canonicalize_unknown_english(Tok(f)) = <<>> THEN map
    ELSE SetDefault(map, _normalize_lookup_key(Tok(f)), _canonicalize_unknown_english(Tok(f)))

\* Lines 564-582: the fallbacks read self._map and leave it as it is.
MapAfterMiss(map, f) == map

\* Lines 578-582: no mapping, no CJK character.
TokenLatinMiss(c) ==
    /\ AtToken(p_call[c])
    /\ Tok(p_call[c]) # <<>>
    /\ Unmapped(p_call[c], p_map)
    /\ ~_contains_cjk(Tok(p_call[c]))
    /\ p_call' = [p_call EXCEPT ![c] = LatinMissed(@)]
    /\ p_map' = MapAfterMiss(p_map, p_call[c])

\* Faulty variant of ClampConfidence: only the upper clamp (min(1.0, confidence)).
ClampConfidence_NoFloor(c) == Min(100, c)

\* Line 584.
ClampConfidence(c) == Max(0, Min(100, c))

\* Lines 584-611.
Finished(f) ==
    LET confidence == ClampConfidence(f.confidence)
        parse_status == IF confidence < ReviewBelow THEN "NEEDS_REVIEW" ELSE "OK"
    IN [f EXCEPT !.result = Some(ParseResult(parse_status, confidence, f.parsed,
                                             f.unrecognized, f.notes, f.review_items)),
                 !.pc = "done"]

ParseFinish(c) ==
    /\ p_call[c].pc = "loop"
    /\ p_call[c].i > Len(p_call[c].tokens)
    /\ p_call' = [p_call EXCEPT ![c] = Finished(@)]
    /\ UNCHANGED p_map

\* One step of a call of parse that is alone on an engine whose dictionary is map.
StepAlone(f, map) ==
    IF f.pc = "call" THEN Cleaned(f)
    ELSE IF f.pc = "cleaned"
    THEN IF _looks_invalid_blob(f.clean) \/ _split_ingredients(f.clean).tokens = <<>>
         THEN Rejected(f) ELSE Tokenized(f)
    ELSE IF ~AtToken(f) THEN Finished(f)
    ELSE IF Tok(f) = <<>> THEN Dropped(f)
    ELSE IF ~Unmapped(f, map) THEN Mapped(f, map)
    ELSE IF _contains_cjk(Tok(f)) THEN CjkMissed(f)
    ELSE LatinMissed(f)

\* What a call of parse returns when it is the only call made on a freshly
\* built engine.
RECURSIVE RunAlone(_)
RunAlone(f) == IF f.pc = "done" THEN f.result ELSE RunAlone(StepAlone(f, EngineMap))

\* The texts handed to parse ------------------------------------------------

BlobToken ==
    <<"Aqua", SP, "Glycerin", SP, "Niacinamide", SP, "Zinc", SP, "PCA", SP, "Phenoxyethanol">>
CjkBlobToken == <<"U+73BBU+8272U+56E0", SP>> \o BlobToken

\* Texts of single list items.
ParseTokens ==
    {<<"Water">>, <<"Aqua", SP, "(", "Water", ")">>, <<"U+6C34">>, <<"U+73BBU+8272U+56E0">>,
     <<"bakuchiol">>, <<"<br>">>, <<"<b>", "Glycerin", "</b>">>, <<"fragrance">>,
     <<"shea", SP, "<br>", SP, "butter">>, <<"Shea", SP, "<br>", SP, "butter">>}

\* The items joined by ", ".
RECURSIVE JoinItems(_)
JoinItems(items) ==
    IF items = <<>> THEN <<>>
    ELSE IF Len(items) = 1 THEN items[1]
    ELSE items[1] \o <<",", SP>> \o JoinItems(Tail(items))

ItemLists == UNION {[1..n -> ParseTokens] : n \in 1..MaxItems}

\* k unmapped CJK items.
CjkRun(k) == JoinItems([i \in 1..k |-> <<"U+73BBU+8272U+56E0">>])

\* Texts that are no list, or a list the cleaner changes first.
OddTexts ==
    {<<>>, <<"See", SP, "image">>, <<"See", SP, "image", SP, "read", SP, "more">>,
     <<"na">>, <<"Na">>, <<",", ",", ";">>, <<"-">>, <<"read", SP, "more">>,
     <<"U+89C1U+5305U+88C5">>, BlobToken, CjkBlobToken,
     <<"Ingredients", ":", SP, "Water", ",", SP, "Glycerin">>,
     <<"Water", ",", SP, "etc", ".">>,
     <<"water", SP, "/", SP, "aqua">>,
     <<"bakuchiol", "U+FF08", "U+6C34", ",", "Water", "U+FF09", ";", "U+6C34">>,
     <<"Water", ",", SP, "#", "aqua", SP, UrlSym>>}

ParseInputs ==
    {None} \cup {Some(t) : t \in OddTexts}
           \cup {Some(JoinItems(l)) : l \in ItemLists}
           \cup {Some(CjkRun(k)) : k \in 1..MaxTokens}

\* The texts of the calls made side by side on one engine.
SharedInputs ==
    {None} \cup {Some(t) : t \in {<<"See", SP, "image">>, <<"-">>, <<"<br>">>, BlobToken,
                                   <<"bakuchiol", ",", SP, "Water">>,
                                   <<"Bakuchiol", ",", SP, "bakuchiol">>,
                                   <<"U+6C34", ",", "U+73BBU+8272U+56E0">>,
                                   <<"shea", SP, "butter", ",", "fragrance">>}}

\* Every caller has called parse on the one freshly built engine.
ParseShared ==
    /\ p_map = EngineMap
    /\ p_call \in [Callers -> {Frame("call", raw) : raw \in SharedInputs}]

\* One call of parse on a freshly built engine.
ParseInput ==
    /\ p_map = EngineMap
    /\ \E raw \in ParseInputs :
         p_call = [c \in Callers |-> IF c = 1 THEN Frame("call", raw) ELSE Frame("unused", None)]

\* =================================================================
\* jobs.py, main.py : a task, its task rows and harvest_row
\* =================================================================

\* config.py lines 29-40: the fields of Settings.
SettingsFields ==
    {"db_url", "cors_origins", "redis_url", "queue_mode", "serper_api_key",
     "google_cse_api_key", "google_cse_id", "request_timeout_s"}

\* search.py line 101: the first attribute default_search_engine reads.
FirstEngineSetting == "serpapi_api_key"

\* Faulty variant of HasSetting: every attribute is found.
HasSetting_Any(name) == TRUE

\* getattr on the frozen dataclass: AttributeError unless the field exists.
HasSetting(name) == name \in SettingsFields

\* source_harvester.py line 45: the keyword parameters of process, and
\* jobs.py lines 60-65: the keywords harvest_row calls it with.
ProcessParameters == {"market", "brand", "product_name"}
HarvestKeywords == {"market", "brand", "product_name", "preferred_url"}

\* main.py line 565.
TerminalStatuses == {"OK", "PENDING", "NEEDS_SOURCE", "SKIPPED", "ERROR"}

\* models.py: a task row and a candidate row, as far as harvest_row reads
\* and writes them.  non_cosmetic stands for non_cosmetic_skip_reason
\* returning a reason for the row's brand and product name.
TaskRow(status, message) == [status |-> status, message |-> message]

CandidateRow(non_cosmetic, text) ==
    [non_cosmetic |-> non_cosmetic, status |-> "EMPTY", confidence |-> None,
     raw_ingredient_text |-> text, source_ref |-> None, source_type |-> None,
     error |-> None]

\* jobs.py lines 11-19.
_has_meaningful_ingredients(text) == text # None /\ text[1] \notin {"", "nan", "n/a"}

\* What a call of harvest_row leaves: the two rows and what it raised.
JobResult(tr, row, exc) == [tr |-> tr, row |-> row, raised |-> exc]

\* jobs.py lines 22-89; returned is what process returns when it is called.
\* The commit of lines 30-34 (RUNNING) is overwritten by every branch below it.
harvest_row(tr, row, force, returned) ==
    IF ~HasSetting(FirstEngineSetting)
    THEN JobResult(tr, row, Some("AttributeError"))
    ELSE IF row.non_cosmetic
    THEN JobResult(TaskRow("SKIPPED", Some("non_cosmetic_product")),
                   [row EXCEPT !.status = "SKIPPED", !.error = Some("non_cosmetic_product")],
                   None)
    ELSE IF ~force /\ _has_meaningful_ingredients(row.raw_ingredient_text)
    THEN JobResult(TaskRow("SKIPPED", Some("already_has_raw_ingredient_text")),
                   [row EXCEPT !.status = "SKIPPED"], None)
    ELSE IF ~(HarvestKeywords \subseteq ProcessParameters)
    THEN JobResult(TaskRow("ERROR", Some("TypeError")),
                   [row EXCEPT !.status = "ERROR", !.error = Some("TypeError")], None)
    ELSE JobResult(TaskRow(returned.status, returned.debug.hint),
                   [row EXCEPT !.status = returned.status,
                               !.confidence = Some(returned.confidence),
                               !.raw_ingredient_text = returned.raw_ingredient_text,
                               !.source_ref = returned.source_ref,
                               !.source_type = returned.source_type,
                               !.error = None],
                   None)

\* What process may return to harvest_row.
JobOutcomes ==
    {NeedsSourceOutcome(Debug("q", <<>>, <<>>, None, None, None)),
     HarvestOutcome("PENDING", 51, Some(TextLow), Some(Url(3)), Some("Official"),
                    Debug("q", <<Url(3)>>, <<>>, Some(Url(3)), Some("hint"), Some(TRUE))),
     HarvestOutcome("OK", 92, Some(TextGood), Some(Url(1)), Some("Retailer"),
                    Debug("q", <<Url(1)>>, <<>>, Some(Url(1)), Some("hint"), None))}

TaskUnused ==
    /\ tk_mode = "inline"
    /\ tk_force = FALSE
    /\ tk_cands = <<>>
    /\ tk_task = None
    /\ tk_trs = <<>>
    /\ tk_pc = "unused"
    /\ tk_i = 0
    /\ tk_jobs = {}
    /\ tk_calls = {}
    /\ tk_snap = None
    /\ tk_report = None

\* The candidate rows a request may select.
CandidateRows ==
    {CandidateRow(n, t) : n \in BOOLEAN, t \in {None, Some("n/a"), Some("Aqua, Glycerin")}}

\* A request to create_task has arrived; no task exists yet.
TaskInput ==
    /\ tk_mode \in {"inline", "rq"}
    /\ tk_force \in BOOLEAN
    /\ tk_cands \in UNION {[1..n -> CandidateRows] : n \in 0..MaxRows}
    /\ tk_task = None
    /\ tk_trs = <<>>
    /\ tk_pc = "idle"
    /\ tk_i = 0
    /\ tk_jobs = {}
    /\ tk_calls = {}
    /\ tk_snap = None
    /\ tk_report = None

\* main.py lines 525-526.
CreateNoRows ==
    /\ tk_pc = "idle"
    /\ tk_cands = <<>>
    /\ tk_pc' = "failed"
    /\ UNCHANGED <<tk_mode, tk_force, tk_cands, tk_task, tk_trs, tk_i, tk_jobs, tk_calls,
                   tk_snap, tk_report>>

\* Lines 528-531.
CreateTask ==
    /\ tk_pc = "idle"
    /\ tk_cands # <<>>
    /\ tk_task' = Some("RUNNING")
    /\ tk_pc' = "task"
    /\ UNCHANGED <<tk_mode, tk_force, tk_cands, tk_trs, tk_i, tk_jobs, tk_calls, tk_snap,
                   tk_report>>

\* Lines 533-537.
CreateRows ==
    /\ tk_pc = "task"
    /\ tk_trs' = [i \in 1..Len(tk_cands) |-> TaskRow("QUEUED", None)]
    /\ tk_pc' = "loop"
    /\ tk_i' = 1
    /\ UNCHANGED <<tk_mode, tk_force, tk_cands, tk_task, tk_jobs, tk_calls, tk_snap,
                   tk_report>>

\* Lines 539-545 with queue.py lines 30-36: the job is queued.
EnqueueJob ==
    /\ tk_pc = "loop"
    /\ tk_i <= Len(tk_cands)
    /\ tk_mode = "rq"
    /\ tk_jobs' = tk_jobs \cup {tk_i}
    /\ tk_i' = tk_i + 1
    /\ UNCHANGED <<tk_mode, tk_force, tk_cands, tk_task, tk_trs, tk_pc, tk_calls, tk_snap,
                   tk_report>>

\* The rows and the history after harvest_row has run for row i.
AfterJob(i, r) ==
    /\ tk_trs' = [tk_trs EXCEPT ![i] = r.tr]
    /\ tk_cands' = [tk_cands EXCEPT ![i] = r.row]
    /\ tk_calls' = tk_calls \cup {[row |-> i, before |-> tk_cands[i], raised |-> r.raised]}

\* Lines 543-545 with queue.py lines 26-29: enqueue returns None and
\* harvest_row runs inside the request; what it raises ends the request.
InlineJob ==
    /\ tk_pc = "loop"
    /\ tk_i <= Len(tk_cands)
    /\ tk_mode = "inline"
    /\ \E o \in JobOutcomes :
         LET r == harvest_row(tk_trs[tk_i], tk_cands[tk_i], tk_force, o)
         IN /\ AfterJob(tk_i, r)
            /\ IF r.raised # None
               THEN tk_pc' = "failed" /\ tk_i' = tk_i
               ELSE tk_pc' = tk_pc /\ tk_i' = tk_i + 1
    /\ UNCHANGED <<tk_mode, tk_force, tk_task, tk_jobs, tk_snap, tk_report>>

\* Line 547.
CreateReturns ==
    /\ tk_pc = "loop"
    /\ tk_i > Len(tk_cands)
    /\ tk_pc' = "returned"
    /\ UNCHANGED <<tk_mode, tk_force, tk_cands, tk_task, tk_trs, tk_i, tk_jobs, tk_calls,
                   tk_snap, tk_report>>

\* worker.py line 18: the worker runs a queued job.
WorkerRuns ==
    /\ \E i \in tk_jobs, o \in JobOutcomes :
         /\ AfterJob(i, harvest_row(tk_trs[i], tk_cands[i], tk_force, o))
         /\ tk_jobs' = tk_jobs \ {i}
    /\ UNCHANGED <<tk_mode, tk_force, tk_task, tk_pc, tk_i, tk_snap, tk_report>>

\* Lines 553-555: no such task.
GetTaskNotFound ==
    /\ tk_pc # "unused"
    /\ tk_snap = None
    /\ tk_task = None
    /\ tk_report' = Some("404")
    /\ UNCHANGED <<tk_mode, tk_force, tk_cands, tk_task, tk_trs, tk_pc, tk_i, tk_jobs,
                   tk_calls, tk_snap>>

\* Lines 553-566: the task, the counts per status, done and total.
GetTaskReads ==
    /\ tk_snap = None
    /\ tk_task # None
    /\ tk_snap' = Some([status |-> tk_task[1],
                        total |-> Len(tk_trs),
                        done |-> Cardinality({i \in 1..Len(tk_trs) :
                                                tk_trs[i].status \in TerminalStatuses})])
    /\ UNCHANGED <<tk_mode, tk_force, tk_cands, tk_task, tk_trs, tk_pc, tk_i, tk_jobs,
                   tk_calls, tk_report>>

\* Faulty variant of CompletionDue: a task without task rows counts as done.
CompletionDue_Empty(snap) == snap.status = "RUNNING" /\ snap.done = snap.total

\* Line 569.
CompletionDue(snap) == snap.status = "RUNNING" /\ snap.total > 0 /\ snap.done = snap.total

\* Lines 568-584.
GetTaskAnswers ==
    /\ tk_snap # None
    /\ IF CompletionDue(tk_snap[1])
       THEN tk_task' = Some("COMPLETED") /\ tk_report' = Some("COMPLETED")
       ELSE tk_task' = tk_task /\ tk_report' = Some(tk_snap[1].status)
    /\ tk_snap' = None
    /\ UNCHANGED <<tk_mode, tk_force, tk_cands, tk_trs, tk_pc, tk_i, tk_jobs, tk_calls>>

\* =================================================================
\* main.py : _maybe_init_db under concurrent requests
\* =================================================================

\* Line 49, _DB_RETRY_INTERVAL_S, in ticks of the model's clock.
RetryInterval == 2

\* The requests in flight: the endpoints are plain functions, which the
\* server runs in worker threads.
Requests == 1..MaxRequests

Req(at, now) == [pc |-> at, now |-> now]

DbUnused ==
    /\ db_used = FALSE
    /\ db_ready = FALSE
    /\ db_error = None
    /\ db_last_try = 0
    /\ db_lock = None
    /\ db_clock = 0
    /\ db_req = <<>>
    /\ db_starts = <<>>

\* Lines 46-51: the module is loaded, the database is not ready; the clock
\* is far from 0, the initial _DB_LAST_TRY_AT.
DbInput ==
    /\ db_used = TRUE
    /\ db_ready = FALSE
    /\ db_error = None
    /\ db_last_try = 0
    /\ db_lock = None
    /\ db_clock = RetryInterval
    /\ db_req = [r \in Requests |-> Req("idle", 0)]
    /\ db_starts = <<>>

At(r, at) == db_used /\ db_req[r].pc = at

Goto(r, at) == db_req' = [db_req EXCEPT ![r].pc = at]

\* Time passes.
Tick ==
    /\ db_used
    /\ db_clock < MaxClock
    /\ db_clock' = db_clock + 1
    /\ UNCHANGED <<db_used, db_ready, db_error, db_last_try, db_lock, db_req, db_starts>>

\* Lines 245-248: a request enters _require_db.
RequireDb(r) ==
    /\ At(r, "idle")
    /\ IF db_ready THEN Goto(r, "idle") ELSE Goto(r, "called")
    /\ UNCHANGED <<db_used, db_ready, db_error, db_last_try, db_lock, db_clock, db_starts>>

\* Lines 226-228.
ReadClock(r) ==
    /\ At(r, "called")
    /\ IF db_ready
       THEN Goto(r, "idle")
       ELSE db_req' = [db_req EXCEPT ![r] = Req("timed", db_clock)]
    /\ UNCHANGED <<db_used, db_ready, db_error, db_last_try, db_lock, db_clock, db_starts>>

\* Faulty variant of TooEarly: the interval is not looked at.
TooEarly_Never(now, last) == FALSE

\* Line 229.
TooEarly(now, last) == now - last < Max(0, RetryInterval)

\* Lines 229-230.
CheckInterval(r) ==
    /\ At(r, "timed")
    /\ IF TooEarly(db_req[r].now, db_last_try) THEN Goto(r, "idle") ELSE Goto(r, "acquire")
    /\ UNCHANGED <<db_used, db_ready, db_error, db_last_try, db_lock, db_clock, db_starts>>

\* Lines 231-232: acquire(blocking=False) returns at once, with or without
\* the lock.
TryLock(r) ==
    /\ At(r, "acquire")
    /\ IF db_lock = None
       THEN db_lock' = Some(r) /\ Goto(r, "locked")
       ELSE db_lock' = db_lock /\ Goto(r, "idle")
    /\ UNCHANGED <<db_used, db_ready, db_error, db_last_try, db_clock, db_starts>>

\* The two latest entries of a history.
LastTwo(s) == IF Len(s) <= 2 THEN s ELSE SubSeq(s, Len(s) - 1, Len(s))

\* Lines 233-235: the attempt starts.
StartAttempt(r) ==
    /\ At(r, "locked")
    /\ db_last_try' = db_req[r].now
    /\ db_starts' = LastTwo(Append(db_starts, [at |-> db_clock, ready |-> db_ready]))
    /\ Goto(r, "creating")
    /\ UNCHANGED <<db_used, db_ready, db_error, db_lock, db_clock>>

\* Lines 235-237: create_all returns.
CreateSucceeds(r) ==
    /\ At(r, "creating")
    /\ db_ready' = TRUE
    /\ db_error' = None
    /\ Goto(r, "release")
    /\ UNCHANGED <<db_used, db_last_try, db_lock, db_clock, db_starts>>

\* Lines 238-240: create_all raises.
CreateFails(r) ==
    /\ At(r, "creating")
    /\ db_ready' = FALSE
    /\ db_error' = Some("DB init failed")
    /\ Goto(r, "release")
    /\ UNCHANGED <<db_used, db_last_try, db_lock, db_clock, db_starts>>

\* Lines 241-242.
ReleaseLock(r) ==
    /\ At(r, "release")
    /\ db_lock' = None
    /\ Goto(r, "idle")
    /\ UNCHANGED <<db_used, db_ready, db_error, db_last_try, db_clock, db_starts>>

\* =================================================================
\* Specifications
\* =================================================================

\* The variables of the machines added last.
morevars == <<lvars, nvars, tvars, jvars, bvars>>

MoreUnused == SlashUnused /\ NoiseUnused /\ TrustUnused /\ TaskUnused /\ DbUnused

vars == <<hvars, evars, pvars, cvars, svars, dvars, morevars>>

\* No harvest is under way.
HarvestUnused ==
    /\ engines = 0
    /\ pc = "unused"
    /\ market = ""
    /\ query = ""
    /\ eng = 0
    /\ urls = <<>>
    /\ idx = 0
    /\ tries = 0
    /\ attempts = <<>>
    /\ best_pending = None
    /\ best_rank = InitialRank
    /\ outcome = None
    /\ raised = None
    /\ canceled = FALSE
    /\ requested = <<>>
    /\ results = <<>>
    /\ calls = IF pc = "unused" THEN 0 ELSE 1
    /\ earlier = None

\* One call of SourceHarvester.process on a freshly built harvester.
Init == HarvestInit /\ MoreUnused /\ ExtractUnused /\ DomUnused /\ ParseUnused /\ CleanUnused /\ SplitUnused

Next ==
    \/ StartProcess /\ UNCHANGED <<evars, pvars, cvars, svars, dvars, kvars, morevars>>
    \/ NoopSearch /\ UNCHANGED <<evars, pvars, cvars, svars, dvars, kvars, morevars>>
    \/ SingleEngineReturns /\ UNCHANGED <<evars, pvars, cvars, svars, dvars, kvars, morevars>>
    \/ SingleEngineRaises /\ UNCHANGED <<evars, pvars, cvars, svars, dvars, kvars, morevars>>
    \/ ChainEngineReturns /\ UNCHANGED <<evars, pvars, cvars, svars, dvars, kvars, morevars>>
    \/ ChainEngineEmpty /\ UNCHANGED <<evars, pvars, cvars, svars, dvars, kvars, morevars>>
    \/ ChainEngineRaises /\ UNCHANGED <<evars, pvars, cvars, svars, dvars, kvars, morevars>>
    \/ ChainExhausted /\ UNCHANGED <<evars, pvars, cvars, svars, dvars, kvars, morevars>>
    \/ FetchRaises /\ UNCHANGED <<evars, pvars, cvars, svars, dvars, kvars, morevars>>
    \/ FetchHttpError /\ UNCHANGED <<evars, pvars, cvars, svars, dvars, kvars, morevars>>
    \/ ExtractRaises /\ UNCHANGED <<evars, pvars, cvars, svars, dvars, kvars, morevars>>
    \/ NoExtract /\ UNCHANGED <<evars, pvars, cvars, svars, dvars, kvars, morevars>>
    \/ ExtractTrusted /\ UNCHANGED <<evars, pvars, cvars, svars, dvars, kvars, morevars>>
    \/ ExtractPending /\ UNCHANGED <<evars, pvars, cvars, svars, dvars, kvars, morevars>>
    \/ LoopExit /\ UNCHANGED <<evars, pvars, cvars, svars, dvars, kvars, morevars>>
    \/ Cancel /\ UNCHANGED <<evars, pvars, cvars, svars, dvars, kvars, morevars>>

Spec == Init /\ [][Next]_vars

\* One call of extract_ingredients on a drawn page, or one call of parse.
InitScore ==
    /\ HarvestUnused
    /\ MoreUnused
    /\ CleanUnused
    /\ SplitUnused
    /\ DomUnused
    /\ \/ ExtractInput /\ ParseUnused
       \/ ExtractUnused /\ ParseInput

\* The steps of the calls of parse.
NextParse ==
    \/ \E c \in Callers : ParseClean(c) /\ UNCHANGED <<hvars, evars, cvars, svars, dvars, morevars>>
    \/ \E c \in Callers : ParseInvalidBlob(c) /\ UNCHANGED <<hvars, evars, cvars, svars, dvars, morevars>>
    \/ \E c \in Callers : ParseNoTokens(c) /\ UNCHANGED <<hvars, evars, cvars, svars, dvars, morevars>>
    \/ \E c \in Callers : ParseTokenize(c) /\ UNCHANGED <<hvars, evars, cvars, svars, dvars, morevars>>
    \/ \E c \in Callers : TokenDropped(c) /\ UNCHANGED <<hvars, evars, cvars, svars, dvars, morevars>>
    \/ \E c \in Callers : TokenMapped(c) /\ UNCHANGED <<hvars, evars, cvars, svars, dvars, morevars>>
    \/ \E c \in Callers : TokenCjkMiss(c) /\ UNCHANGED <<hvars, evars, cvars, svars, dvars, morevars>>
    \/ \E c \in Callers : TokenLatinMiss(c) /\ UNCHANGED <<hvars, evars, cvars, svars, dvars, morevars>>
    \/ \E c \in Callers : ParseFinish(c) /\ UNCHANGED <<hvars, evars, cvars, svars, dvars, morevars>>

NextScore ==
    \/ ExtractCall /\ UNCHANGED <<hvars, pvars, cvars, svars, dvars, morevars>>
    \/ NextParse

\* Two calls of process, one after the other, on one SourceHarvester.
NextTwoCalls ==
    \/ Next /\ SecondWorld'
    \/ CallAgain /\ UNCHANGED <<evars, pvars, cvars, svars, dvars, morevars>>

SpecTwoCalls == Init /\ [][NextTwoCalls]_vars

SpecScore == InitScore /\ [][NextScore]_vars

\* Calls of parse running side by side on one shared engine, their steps
\* interleaved in any order: parse takes no lock.
InitShared == HarvestUnused /\ MoreUnused /\ ExtractUnused /\ DomUnused /\ CleanUnused /\ SplitUnused /\ ParseShared

SpecShared == InitShared /\ [][NextParse]_vars

\* One call of clean_noise, then a second call on the text it returned.
InitClean == HarvestUnused /\ MoreUnused /\ ExtractUnused /\ DomUnused /\ ParseUnused /\ SplitUnused /\ CleanInput

NextClean ==
    \/ CleanOnce /\ UNCHANGED <<hvars, evars, pvars, svars, dvars, morevars>>
    \/ CleanAgain /\ UNCHANGED <<hvars, evars, pvars, svars, dvars, morevars>>

SpecClean == InitClean /\ [][NextClean]_vars

\* One call of _split_outside_parens with the separators of _split_ingredients.
InitSplit == HarvestUnused /\ MoreUnused /\ ExtractUnused /\ DomUnused /\ ParseUnused /\ CleanUnused /\ SplitInput

NextSplit ==
    \/ SplitChar /\ UNCHANGED <<hvars, evars, pvars, cvars, dvars, morevars>>
    \/ SplitEnd /\ UNCHANGED <<hvars, evars, pvars, cvars, dvars, morevars>>

SpecSplit == InitSplit /\ [][NextSplit]_vars

\* One call of extract_ingredients on a parsed document.
InitDom ==
    /\ HarvestUnused
    /\ MoreUnused
    /\ ExtractUnused
    /\ ParseUnused
    /\ CleanUnused
    /\ SplitUnused
    /\ DomInput \/ VerifyInput

NextDom ==
    \/ DomEmpty /\ UNCHANGED <<hvars, evars, pvars, cvars, svars, morevars>>
    \/ DomParse /\ UNCHANGED <<hvars, evars, pvars, cvars, svars, morevars>>
    \/ DomCollect /\ UNCHANGED <<hvars, evars, pvars, cvars, svars, morevars>>
    \/ DomRank /\ UNCHANGED <<hvars, evars, pvars, cvars, svars, morevars>>
    \/ DomVerify /\ UNCHANGED <<hvars, evars, pvars, cvars, svars, morevars>>

SpecDom == InitDom /\ [][NextDom]_vars

\* One call of _split_ingredients.
InitSlash ==
    /\ HarvestUnused
    /\ ExtractUnused
    /\ DomUnused
    /\ ParseUnused
    /\ CleanUnused
    /\ SplitUnused
    /\ NoiseUnused
    /\ TrustUnused
    /\ TaskUnused
    /\ DbUnused
    /\ SlashInput

oldvars == <<hvars, evars, pvars, cvars, svars, dvars>>

notslash == <<nvars, tvars, jvars, bvars>>

NextSlash ==
    \/ SlashBlank /\ UNCHANGED <<oldvars, notslash>>
    \/ SlashPrimary /\ UNCHANGED <<oldvars, notslash>>
    \/ SlashSecondary /\ UNCHANGED <<oldvars, notslash>>
    \/ SlashSkipped /\ UNCHANGED <<oldvars, notslash>>
    \/ SlashNormalize /\ UNCHANGED <<oldvars, notslash>>

SpecSlash == InitSlash /\ [][NextSlash]_vars

\* One text given to both cleaners.
InitNoise ==
    /\ HarvestUnused
    /\ ExtractUnused
    /\ DomUnused
    /\ ParseUnused
    /\ CleanUnused
    /\ SplitUnused
    /\ SlashUnused
    /\ TrustUnused
    /\ TaskUnused
    /\ DbUnused
    /\ NoiseInput

notnoise == <<lvars, tvars, jvars, bvars>>

NextNoise ==
    \/ NoiseExtract /\ UNCHANGED <<oldvars, notnoise>>
    \/ NoiseParser /\ UNCHANGED <<oldvars, notnoise>>

SpecNoise == InitNoise /\ [][NextNoise]_vars

\* One URL of process: the block scored, the page extracted, the status decided.
InitTrust ==
    /\ HarvestUnused
    /\ ExtractUnused
    /\ DomUnused
    /\ ParseUnused
    /\ CleanUnused
    /\ SplitUnused
    /\ SlashUnused
    /\ NoiseUnused
    /\ TaskUnused
    /\ DbUnused
    /\ TrustInput

nottrust == <<lvars, nvars, jvars, bvars>>

NextTrust ==
    \/ TrustScore /\ UNCHANGED <<oldvars, nottrust>>
    \/ TrustExtract /\ UNCHANGED <<oldvars, nottrust>>
    \/ TrustNoExtract /\ UNCHANGED <<oldvars, nottrust>>
    \/ TrustReturned /\ UNCHANGED <<oldvars, nottrust>>
    \/ TrustKept /\ UNCHANGED <<oldvars, nottrust>>

SpecTrust == InitTrust /\ [][NextTrust]_vars

\* One request to create_task, the jobs it starts, and requests to get_task
\* at any moment.
InitTask ==
    /\ HarvestUnused
    /\ ExtractUnused
    /\ DomUnused
    /\ ParseUnused
    /\ CleanUnused
    /\ SplitUnused
    /\ SlashUnused
    /\ NoiseUnused
    /\ TrustUnused
    /\ DbUnused
    /\ TaskInput

nottask == <<lvars, nvars, tvars, bvars>>

NextTask ==
    \/ CreateNoRows /\ UNCHANGED <<oldvars, nottask>>
    \/ CreateTask /\ UNCHANGED <<oldvars, nottask>>
    \/ CreateRows /\ UNCHANGED <<oldvars, nottask>>
    \/ EnqueueJob /\ UNCHANGED <<oldvars, nottask>>
    \/ InlineJob /\ UNCHANGED <<oldvars, nottask>>
    \/ CreateReturns /\ UNCHANGED <<oldvars, nottask>>
    \/ WorkerRuns /\ UNCHANGED <<oldvars, nottask>>
    \/ GetTaskNotFound /\ UNCHANGED <<oldvars, nottask>>
    \/ GetTaskReads /\ UNCHANGED <<oldvars, nottask>>
    \/ GetTaskAnswers /\ UNCHANGED <<oldvars, nottask>>

SpecTask == InitTask /\ [][NextTask]_vars

\* Concurrent requests calling _maybe_init_db.
InitDb ==
    /\ HarvestUnused
    /\ ExtractUnused
    /\ DomUnused
    /\ ParseUnused
    /\ CleanUnused
    /\ SplitUnused
    /\ SlashUnused
    /\ NoiseUnused
    /\ TrustUnused
    /\ TaskUnused
    /\ DbInput

notdb == <<lvars, nvars, tvars, jvars>>

NextDb ==
    \/ Tick /\ UNCHANGED <<oldvars, notdb>>
    \/ \E r \in Requests : RequireDb(r) /\ UNCHANGED <<oldvars, notdb>>
    \/ \E r \in Requests : ReadClock(r) /\ UNCHANGED <<oldvars, notdb>>
    \/ \E r \in Requests : CheckInterval(r) /\ UNCHANGED <<oldvars, notdb>>
    \/ \E r \in Requests : TryLock(r) /\ UNCHANGED <<oldvars, notdb>>
    \/ \E r \in Requests : StartAttempt(r) /\ UNCHANGED <<oldvars, notdb>>
    \/ \E r \in Requests : CreateSucceeds(r) /\ UNCHANGED <<oldvars, notdb>>
    \/ \E r \in Requests : CreateFails(r) /\ UNCHANGED <<oldvars, notdb>>
    \/ \E r \in Requests : ReleaseLock(r) /\ UNCHANGED <<oldvars, notdb>>

SpecDb == InitDb /\ [][NextDb]_vars

\* A harvest that states the progress the code makes: process is one
\* sequential call, every requests.get returns or raises within the request
\* timeout, and nothing in the loop waits for anything else.
FairSpec == Spec /\ WF_vars(Next)

\* =================================================================
\* Properties
\* =================================================================

Last(s) == s[Len(s)]

\* A URL whose retrieval returned a status below 400 and whose extraction is
\* verified with a score of at least 0.8.
TrustedResult(r) ==
    /\ r.status # None
    /\ r.status[1] < 400
    /\ r.extracted # None
    /\ r.extracted[1].verified_in_dom
    /\ r.extracted[1].score >= 80

\* C1: every outcome process returns satisfies: OK implies raw text present
\* and confidence >= 0.8; NEEDS_SOURCE implies no raw text, no source_ref, no
\* source_type and confidence 0; PENDING implies raw text present and
\* confidence within [0.3, 0.8].
C1_OutcomeInvariant ==
    outcome # None =>
        LET o == outcome[1]
        IN /\ o.status \in {"OK", "PENDING", "NEEDS_SOURCE"}
           /\ o.status = "OK" =>
                /\ o.raw_ingredient_text # None
                /\ o.raw_ingredient_text[1] # <<>>
                /\ o.confidence >= 80
           /\ o.status = "NEEDS_SOURCE" =>
                /\ o.raw_ingredient_text = None
                /\ o.source_ref = None
                /\ o.source_type = None
                /\ o.confidence = 0
           /\ o.status = "PENDING" =>
                /\ o.raw_ingredient_text # None
                /\ o.raw_ingredient_text[1] # <<>>
                /\ o.confidence >= 30
                /\ o.confidence <= 80

\* A PENDING outcome whose extraction scored above 0.8: the clamp decides.
C1_Witness ==
    /\ outcome # None
    /\ outcome[1].status = "PENDING"
    /\ outcome[1].confidence = 80
    /\ best_pending # None
    /\ best_pending[1].confidence > 80

\* C2: when the search returns no URL, process returns NEEDS_SOURCE with
\* confidence 0, no text, no source_ref and no source_type, retrieves nothing,
\* and its diagnostics hold the query, the empty URL list and no attempt.
C2_EmptySearch ==
    (pc \in {"loop", "done"} /\ urls = <<>>) =>
        /\ requested = <<>>
        /\ tries = 0
        /\ results = <<>>
        /\ pc = "done" =>
             outcome =
               Some([status |-> "NEEDS_SOURCE", confidence |-> 0,
                     raw_ingredient_text |-> None, source_ref |-> None,
                     source_type |-> None,
                     debug |-> [query |-> IF market = "CN"
                                          THEN "Test P1 U+5168U+6210U+5206"
                                          ELSE "Test P1 ingredients list INCI",
                                urls |-> <<>>, attempts |-> <<>>, picked |-> None,
                                hint |-> None, verified |-> None]])

\* A lone engine returned the empty list and process has returned.
C2_Witness == pc = "done" /\ urls = <<>> /\ engines = 1 /\ outcome # None

\* C3: process returns OK exactly when one of the (at most 3) URLs tried was
\* retrieved with a status below 400 and gave a verified extraction of score
\* >= 0.8; source_ref and the raw text are then those of the first such URL
\* in search order, whatever the URLs before it produced.
C3_TrustedIffFirstTrustedUrl ==
    pc = "done" =>
        LET T == {i \in 1..Len(results) : TrustedResult(results[i])}
        IN /\ \A i \in 1..Len(results) : i <= 3 /\ results[i].url = urls[i]
           /\ outcome[1].status = "OK" <=> T # {}
           /\ T # {} =>
                LET f == CHOOSE i \in T : \A j \in T : i <= j
                IN /\ outcome[1].source_ref = Some(FinalUrl(urls[f]))
                   /\ outcome[1].raw_ingredient_text = Some(results[f].extracted[1].text)

\* OK from the third URL, after a failed retrieval and an untrusted extraction.
C3_Witness ==
    /\ pc = "done"
    /\ outcome[1].status = "OK"
    /\ Len(results) = 3
    /\ results[1].stage = "fetch"
    /\ results[2].extracted # None
    /\ best_pending # None

\* C4: URLs are retrieved one at a time, in the order the search returned
\* them, never more than the first 3, and none after a retrieval whose
\* extraction is trusted; the attempts list has one entry per URL tried, in
\* that order (an extraction entry carries the URL the retrieval resolved to).
C4_SequentialInOrder ==
    /\ Len(requested) <= 3
    /\ Len(requested) <= Len(urls)
    /\ \A i \in 1..Len(requested) : requested[i] = urls[i]
    /\ Len(results) <= Len(requested)
    /\ Len(requested) <= Len(results) + 1
    /\ \A i \in 1..Len(results) :
         TrustedResult(results[i]) =>
            i = Len(results) /\ Len(requested) = i /\ pc = "done"
    /\ Len(attempts) = Len(results)
    /\ \A i \in 1..Len(attempts) : attempts[i].url \in {urls[i], FinalUrl(urls[i])}

\* Four URLs returned, the second one trusted: two retrieved, two never.
C4_Witness ==
    /\ pc = "done"
    /\ Len(urls) = 4
    /\ Len(requested) = 2
    /\ outcome[1].status = "OK"

\* The diagnostic a failed URL must leave.
ExpectedError(r) ==
    IF r.exc # None
    THEN [text |-> r.exc[1].text, len |-> IF r.exc[1].len > 200 THEN 200 ELSE r.exc[1].len]
    ELSE IF r.status[1] = 400 THEN [text |-> "http_400", len |-> 8]
    ELSE IF r.status[1] = 503 THEN [text |-> "http_503", len |-> 8]
    ELSE [text |-> "no_extract", len |-> 10]

C5_FailureStep ==
    (results' # results /\ Last(results').extracted = None) =>
        /\ attempts' = Append(attempts,
                              [url |-> urls[idx], error |-> Some(ExpectedError(Last(results'))),
                               score |-> None, verified |-> None, hint |-> None])
        /\ best_pending' = best_pending
        /\ best_rank' = best_rank
        /\ idx' = idx + 1
        /\ pc' = "loop"
        /\ outcome' = None
        /\ raised' = None

C5_OneEntryPerUrl ==
    /\ raised # None => requested = <<>>
    /\ pc = "done" => Len(attempts) = Len(requested)

\* C5: a URL whose retrieval or extraction raises, whose status is >= 400 or
\* which yields no candidate adds exactly one diagnostic (the message cut to
\* 200 characters, http_<status>, or no_extract), leaves the best-tentative
\* candidate as it was and lets the loop go on to the next URL; process never
\* raises for it, and attempts ends with one entry per URL tried.
C5_FailureIsolated == []C5_OneEntryPerUrl /\ [][C5_FailureStep]_vars

\* A tentative extraction survives a long exception and an HTTP error after it.
C5_Witness ==
    /\ pc = "done"
    /\ Len(results) = 3
    /\ results[1].extracted # None
    /\ results[2].exc # None
    /\ results[2].exc[1].len > 200
    /\ results[3].status = Some(503)
    /\ outcome[1].status = "PENDING"

RankOf(r) == r.extracted[1].score + (IF r.extracted[1].verified_in_dom THEN 5 ELSE 0)

\* C6: with the URLs exhausted and none trusted, process returns PENDING with
\* the text and resolved URL of the extraction of highest rank = score + 0.05
\* if verified (the earliest on a tie) and its score clamped to [0.3, 0.8];
\* it returns NEEDS_SOURCE exactly when no URL gave an extraction.
C6_BestTentative ==
    (pc = "done" /\ outcome[1].status # "OK") =>
        LET E == {i \in 1..Len(results) : results[i].extracted # None}
        IN /\ outcome[1].status = "NEEDS_SOURCE" <=> E = {}
           /\ E # {} =>
                LET b == CHOOSE i \in E :
                            \A j \in E : \/ RankOf(results[j]) < RankOf(results[i])
                                         \/ RankOf(results[j]) = RankOf(results[i]) /\ i <= j
                    sc == results[b].extracted[1].score
                IN /\ outcome[1].status = "PENDING"
                   /\ outcome[1].raw_ingredient_text = Some(results[b].extracted[1].text)
                   /\ outcome[1].source_ref = Some(FinalUrl(urls[b]))
                   /\ outcome[1].confidence = (IF sc < 30 THEN 30 ELSE IF sc > 80 THEN 80 ELSE sc)

\* Two extractions of equal rank (0.76 verified, then 0.81 unverified), then a
\* lower one: the first is returned.
C6_Witness ==
    /\ pc = "done"
    /\ Len(results) = 3
    /\ results[1].extracted # None
    /\ results[2].extracted # None
    /\ results[3].extracted # None
    /\ results[1].extracted[1].score = 76
    /\ results[2].extracted[1].score = 81
    /\ results[3].extracted[1].score = 43
    /\ outcome[1].confidence = 76

\* C7: once the caller has cancelled in the middle of a harvest, process
\* issues no further retrieval (it returns what it has, or a cancelled error).
C7_NoRetrievalAfterCancel ==
    [][canceled => (requested' = requested /\ tries' = tries /\ results' = results)]_vars

\* C8: a failure of the search capability is treated as "no results":
\* process never lets the exception out, whichever configuration is in use.
C8_SearchFailureContained == raised = None /\ pc # "raised"

C9_Bounded ==
    /\ tries <= 2
    /\ Len(requested) <= 3
    /\ tries > 0 => (pc = "loop" /\ Len(requested) = Len(results) + 1)

C9_Step ==
    /\ tries' # tries => (tries' = tries + 1 \/ tries' = 0)
    /\ (results' # results /\ Last(results').stage = "fetch") =>
          /\ tries = 2
          /\ Len(attempts') = Len(attempts) + 1
          /\ Last(attempts').error # None
          /\ idx' = idx + 1
          /\ pc' = "loop"
    /\ (results' # results /\ Last(results').status # None) =>
          /\ tries' = 0
          /\ Last(results').status[1] >= 400 => (idx' = idx + 1 /\ pc' = "loop")

\* C9: a URL's retrieval is attempted at most 3 times (again only after an
\* attempt raised; a status >= 400 ends the URL at once); after the third
\* failure the error is recorded and the loop moves on; so a call makes at
\* most 3 x 3 retrieval attempts and ends.
C9_RetriesBoundedAndTerminates ==
    /\ []C9_Bounded
    /\ [][C9_Step]_vars
    /\ <>(pc \in {"done", "raised"})

\* Three URLs, each given up after its third failed attempt.
C9_Witness ==
    /\ pc = "done"
    /\ Len(results) = 3
    /\ \A i \in 1..3 : results[i].stage = "fetch"

\* C10: the score of every result extract_ingredients returns, the feature
\* score of every candidate, and the parse_confidence of every parse result
\* lie in [0, 1], however many tokens were penalised.
C10_ScoresInUnitInterval ==
    /\ ex_page # None =>
         /\ _feature_score(ex_page[1].cands[1]) >= 0
         /\ _feature_score(ex_page[1].cands[1]) <= 100
    /\ (ex_result # None /\ ex_result[1] # None) =>
         /\ ex_result[1][1].score >= 0
         /\ ex_result[1][1].score <= 100
    /\ \A c \in Callers :
         p_call[c].result # None =>
           /\ p_call[c].result[1].parse_confidence >= 0
           /\ p_call[c].result[1].parse_confidence <= 100

\* A parse whose penalties took the running confidence below zero.
C10_Witness ==
    /\ p_call[1].result # None
    /\ p_call[1].confidence < 0
    /\ p_call[1].result[1].parse_confidence = 0

\* C11: clean_noise applied to the text clean_noise returned gives that same
\* text back, with an empty notes list.
C11_CleanIdempotent ==
    cn_second # None => cn_second[1] = [text |-> cn_first[1].text, notes |-> <<>>]

\* The frames of the calls of parse that have returned.
Returned == {c \in Callers : p_call[c].result # None}
Ingredients(c) == p_call[c].result[1].ingredients

\* The three ways a standard_name may come from its original_text; latin is
\* the set of texts an unmapped Latin name may differ from in letter case only.
C12_Derivable(p, latin) ==
    LET key == _normalize_lookup_key(p.original_text)
    IN \/ key \in DOMAIN EngineMap /\ p.standard_name = EngineMap[key]
       \/ _contains_cjk(p.original_text) /\ p.standard_name = p.original_text
       \/ /\ ~_contains_cjk(p.original_text)
          /\ \E x \in latin : LowerText(p.standard_name) = LowerText(x)

\* C12 as stated: every emitted standard_name is the dictionary value of the
\* normalized key of its original_text, or the original_text verbatim (CJK),
\* or the original_text changed only in letter case (Latin).
C12_CaseOnly ==
    \A c \in Returned : \A k \in 1..Len(Ingredients(c)) :
        C12_Derivable(Ingredients(c)[k], {Ingredients(c)[k].original_text})

\* C12 amended: every emitted standard_name is the dictionary value of the
\* normalized key of its original_text, or the original_text verbatim (CJK),
\* or (Latin) the original_text changed only in letter case, either as it
\* is or with each run of whitespace made one space.
C12_StandardNameDerivable ==
    \A c \in Returned : \A k \in 1..Len(Ingredients(c)) :
        C12_Derivable(Ingredients(c)[k],
                      {Ingredients(c)[k].original_text,
                       CollapseSpaces(Ingredients(c)[k].original_text)})

\* A result with a dictionary hit, an unmapped CJK token echoed verbatim and
\* an unmapped Latin token whose inner whitespace run was made one space.
C12_Witness ==
    /\ p_call[1].result # None
    /\ \E k \in 1..Len(Ingredients(1)) :
         /\ ~Ingredients(1)[k].uncertain
         /\ Ingredients(1)[k].standard_name # Ingredients(1)[k].original_text
    /\ \E k \in 1..Len(Ingredients(1)) : Ingredients(1)[k].needs_review
    /\ \E k \in 1..Len(Ingredients(1)) :
         /\ Ingredients(1)[k].uncertain
         /\ ~Ingredients(1)[k].needs_review
         /\ Len(Ingredients(1)[k].standard_name) < Len(Ingredients(1)[k].original_text)

\* C13: in every result of parse the order values of the emitted ingredients
\* are 1, 2, ..., n in list order, also when tokens were dropped as empty
\* after tag stripping; while the loop runs, the next order number is one
\* more than the number of ingredients emitted so far.
C13_OrderIsPosition ==
    /\ \A c \in Returned : \A k \in 1..Len(Ingredients(c)) : Ingredients(c)[k].order = k
    /\ \A c \in Callers :
         p_call[c].pc = "loop" =>
           /\ p_call[c].order = Len(p_call[c].parsed) + 1
           /\ \A k \in 1..Len(p_call[c].parsed) : p_call[c].parsed[k].order = k

\* A result whose second of three tokens was dropped as empty after tag
\* stripping, the third token being emitted with order 2.
C13_Witness ==
    /\ p_call[1].result # None
    /\ Len(p_call[1].tokens) = 3
    /\ _strip_angle_brackets(p_call[1].tokens[2]) = <<>>
    /\ Len(Ingredients(1)) = 2
    /\ Ingredients(1)[2].order = 2
    /\ Ingredients(1)[2].original_text = _strip_angle_brackets(p_call[1].tokens[3])

Range(q) == {q[i] : i \in 1..Len(q)}

\* The symbols of the text nodes that are outside every script, style,
\* noscript and svg element of a document, and of those inside one.
OutsideSyms(body) ==
    UNION {Range(body[i].text) \cup
             UNION {Range(body[i].kids[j].text) :
                      j \in {k \in 1..Len(body[i].kids) :
                               body[i].kids[k].tag \notin NonContentTags}} :
           i \in {k \in 1..Len(body) : body[k].tag \notin NonContentTags}}

AllSyms(body) ==
    UNION {Range(body[i].text) \cup
             UNION {Range(body[i].kids[j].text) : j \in 1..Len(body[i].kids)} :
           i \in 1..Len(body)}

OnlyInside(body) == AllSyms(body) \ OutsideSyms(body)

\* The texts of the script elements of a document.
ScriptTexts(body) ==
    {body[i].text : i \in {k \in 1..Len(body) : body[k].tag = "script"}}
      \cup UNION {{body[i].kids[j].text :
                     j \in {k \in 1..Len(body[i].kids) : body[i].kids[k].tag = "script"}} :
                  i \in 1..Len(body)}

\* The text of a document outside those elements, in document order.
OutsideText(body) ==
    Flat([i \in 1..Len(body) |->
            IF body[i].tag \in NonContentTags THEN <<>>
            ELSE body[i].text
                 \o Flat([j \in 1..Len(body[i].kids) |->
                            IF body[i].kids[j].tag \in NonContentTags THEN <<>>
                            ELSE body[i].kids[j].text])])

\* No candidate holds text that occurs only inside those elements.
C14_NeverCollected ==
    dm_pc \in {"collected", "done"} =>
      \A i \in 1..Len(dm_candidates) :
        Range(dm_candidates[i]) \cap OnlyInside(dm_html[1].body) = {}

\* The candidates that are ranked: prepared, long enough, not a payload.
C14_Ranked ==
    {t \in {Prepared(dm_candidates[i]) : i \in 1..Len(dm_candidates)} :
       TextLen(t) >= 10 /\ ~_looks_like_script_or_json(t)}

\* What is returned is one of the ranked candidates, which hold no payload,
\* and no more candidates are counted than were ranked.
C14_PayloadsDropped ==
    (dm_pc = "done" /\ dm_result[1] # None) =>
      /\ dm_result[1][1].text \in C14_Ranked
      /\ dm_result[1][1].debug_hint.candidates <= Cardinality(C14_Ranked)

\* The ingredient names of the page are in a script payload and nowhere in
\* the text outside the non-content elements.
C14_OnlyInScript ==
    /\ ~dm_html[1].empty
    /\ \E t \in ScriptTexts(dm_html[1].body) : Hits(t) > 0
    /\ Hits(OutsideText(dm_html[1].body)) = 0

C14_NoResultWhenOnlyInScript ==
    (dm_pc = "done" /\ C14_OnlyInScript) => dm_result[1] = None

\* C14 as stated: text that occurs only inside script, style, noscript or
\* svg elements is never collected, every candidate classified as a payload
\* is dropped before ranking, and extract_ingredients returns no result for
\* a page whose ingredient text exists only inside a script payload.
C14_ScriptOnlyNoResult ==
    /\ C14_NeverCollected
    /\ C14_PayloadsDropped
    /\ C14_NoResultWhenOnlyInScript

\* The text outside the non-content elements has no list separator and
\* fewer than four of the common tokens.
C14_NoListOutside ==
    LET t == OutsideText(dm_html[1].body)
    IN ~HasListSeparator(t) /\ Hits(t) < 4

\* C14, amended: text that occurs only inside script, style, noscript or svg
\* elements is never collected, every candidate classified as a payload is
\* dropped before ranking, so the text extract_ingredients returns is made of
\* text outside those elements, and it returns no result for a page whose
\* text outside those elements has no list separator and fewer than four
\* common tokens, whatever a script payload holds.
C14_ScriptTextNeverExtracted ==
    /\ C14_NeverCollected
    /\ C14_PayloadsDropped
    /\ (dm_pc = "done" /\ dm_result[1] # None) =>
         Range(dm_result[1][1].text) \subseteq OutsideSyms(dm_html[1].body)
    /\ (dm_pc = "done" /\ ~dm_html[1].empty /\ C14_NoListOutside) =>
         dm_result[1] = None

\* The page of the test, whose list is in the script payload only, returned
\* no result.
C14_Witness ==
    /\ dm_pc = "done"
    /\ dm_html[1].body = HTML_SCRIPT_ONLY
    /\ dm_market = "US"
    /\ dm_result[1] = None

\* The cleaned text is empty, a placeholder, holds a "no real data" phrase,
\* or tokenizes to nothing.
C15_NoData(clean) ==
    \/ StripSet(clean, {SP}) = <<>>
    \/ LowerText(StripSet(clean, {SP})) \in {<<"na">>, <<"none">>, <<"null">>, <<"nan">>}
    \/ Contains(LowerText(clean), <<"see", SP, "image">>)
    \/ Contains(clean, <<"U+89C1U+5305U+88C5">>)
    \/ _split_ingredients(clean).tokens = <<>>

C16_F(tokens) ==
    IF Len(tokens) = 1 /\ (TokenLen(tokens[1]) >= 80 \/ Wordish(tokens[1]) >= 6) THEN 1 ELSE 0

\* K of the claim: the emitted tokens, repeats counted, that miss the
\* dictionary and contain CJK characters.
C16_K(tokens) ==
    Cardinality({i \in 1..Len(tokens) :
                   LET tok == _strip_angle_brackets(tokens[i])
                   IN /\ tok # <<>>
                      /\ _normalize_lookup_key(tok) \notin DOMAIN EngineMap
                      /\ _contains_cjk(tok)})

\* C16: for every input that reaches tokenization with at least one token,
\* parse_confidence = max(0, min(1, 1.0 - 0.5*F - 0.1*K)) (in hundredths),
\* and the status is NEEDS_REVIEW iff that confidence is below 0.6, OK
\* otherwise; a blob (F = 1) without CJK misses gives NEEDS_REVIEW at 0.5.
C16_ConfidenceFormula ==
    \A c \in Returned :
        p_call[c].tokens # <<>> =>
          LET F == C16_F(p_call[c].tokens)
              K == C16_K(p_call[c].tokens)
              r == p_call[c].result[1]
          IN /\ r.parse_confidence = Max(0, Min(100, 100 - 50 * F - 10 * K))
             /\ r.parse_status = IF r.parse_confidence < 60 THEN "NEEDS_REVIEW" ELSE "OK"
             /\ (F = 1 /\ K = 0) => (r.parse_status = "NEEDS_REVIEW" /\ r.parse_confidence = 50)

\* An undelimited text of six words, shorter than 80 characters, without a
\* CJK miss: NEEDS_REVIEW with confidence 0.5.
C16_Witness ==
    /\ p_call[1].result # None
    /\ Len(p_call[1].tokens) = 1
    /\ Wordish(p_call[1].tokens[1]) >= 6
    /\ TokenLen(p_call[1].tokens[1]) < 80
    /\ C16_K(p_call[1].tokens) = 0
    /\ p_call[1].result[1].parse_confidence = 50
    /\ p_call[1].result[1].parse_status = "NEEDS_REVIEW"

\* What the step that emits ingredient p may do to the review items and the
\* confidence of the call.
C19_Emission(p, f, g) ==
    LET hit == _normalize_lookup_key(p.original_text) \in DOMAIN EngineMap
        cjk == _contains_cjk(p.original_text)
        item == [original_text |-> p.original_text, issue |-> "No INCI mapping found"]
    IN /\ hit => /\ ~p.uncertain /\ ~p.needs_review
                 /\ g.review_items = f.review_items
                 /\ g.confidence = f.confidence
       /\ (~hit /\ cjk) => /\ p.uncertain /\ p.needs_review
                           /\ g.review_items = Append(f.review_items, item)
                           /\ g.confidence = f.confidence - 10
       /\ (~hit /\ ~cjk) => /\ p.uncertain /\ ~p.needs_review
                            /\ g.review_items = f.review_items
                            /\ g.confidence = f.confidence

C19_Step ==
    \A c \in Callers :
        Len(p_call'[c].parsed) = Len(p_call[c].parsed) + 1 =>
          C19_Emission(Last(p_call'[c].parsed), p_call[c], p_call'[c])

C19_Counts ==
    \A c \in Returned :
        /\ \A k \in 1..Len(Ingredients(c)) :
             Ingredients(c)[k].needs_review => Ingredients(c)[k].uncertain
        /\ Len(p_call[c].result[1].needs_review)
             = Cardinality({k \in 1..Len(Ingredients(c)) : Ingredients(c)[k].needs_review})

\* C19: a dictionary hit is emitted with uncertain and needs_review false; a
\* miss with CJK characters is emitted with both true, adds one review item
\* "No INCI mapping found" and costs 0.1; a Latin miss is emitted with
\* uncertain true and needs_review false, adds no review item and costs
\* nothing.  So needs_review implies uncertain, and there are as many review
\* items as ingredients with needs_review.
C19_Flags == [][C19_Step]_vars /\ []C19_Counts

\* A result with a hit, a CJK miss and a Latin miss: one review item, 0.9.
C19_Witness ==
    /\ p_call[1].result # None
    /\ Len(Ingredients(1)) = 3
    /\ \E k \in 1..3 : ~Ingredients(1)[k].uncertain
    /\ \E k \in 1..3 : Ingredients(1)[k].uncertain /\ Ingredients(1)[k].needs_review
    /\ \E k \in 1..3 : Ingredients(1)[k].uncertain /\ ~Ingredients(1)[k].needs_review
    /\ Len(p_call[1].result[1].needs_review) = 1
    /\ p_call[1].result[1].parse_confidence = 90

\* C17: the dictionary is the one the constructor built and no step of a
\* parse call adds, removes or changes an entry; every call, however its
\* steps interleave with those of the other calls on the shared engine,
\* returns what it returns when run alone.
C17_SharedDictionaryReadOnly ==
    /\ [][p_map' = p_map]_vars
    /\ [](p_map = EngineMap)
    /\ [](\A c \in Returned : p_call[c].result = RunAlone(Frame("call", p_call[c].raw)))

\* Two calls that interleaved: when the second returned, the first was
\* inside its loop at a token the dictionary does not have, after the second
\* had looked the same name up.
C17_Witness ==
    /\ p_call[2].result # None
    /\ p_call[2].unrecognized # <<>>
    /\ AtToken(p_call[1])
    /\ p_call[1].i = 2
    /\ Tok(p_call[1]) # <<>>
    /\ Unmapped(p_call[1], p_map)
    /\ Tok(p_call[1]) \in {p_call[2].parsed[k].original_text : k \in 1..Len(p_call[2].parsed)}

\* openers minus closers among the characters j..m of the text.
C20_Balance(text, j, m) ==
    Cardinality({x \in j..m : text[x] \in openers})
      - Cardinality({x \in j..m : text[x] \in closers})

\* Some opening bracket before position k is not closed before k: from that
\* bracket on, the closers never catch up with the openers.
C20_Unclosed(text, k) ==
    \E j \in 1..(k - 1) :
        /\ text[j] \in openers
        /\ \A m \in j..(k - 1) : C20_Balance(text, j, m) >= 1

\* The pieces of the text between the positions of cuts, in text order,
\* stripped, the empty ones left out.
C20_Pieces(text, cuts) ==
    LET starts == {1} \cup {k + 1 : k \in cuts}
        end(a) == IF \E k \in cuts : k >= a
                  THEN (CHOOSE k \in cuts : k >= a /\ \A x \in cuts : x >= a => k <= x) - 1
                  ELSE Len(text)
        n == Cardinality(starts)
        nth == [r \in 1..n |-> CHOOSE a \in starts : Cardinality({b \in starts : b < a}) = r - 1]
        piece == [r \in 1..n |-> StripSet(SubSeq(text, nth[r], end(nth[r])), {SP})]
    IN SelectSeq(piece, NonEmptyToken)

\* C20: the tokenizer ends a token at a character iff it is a separator with
\* no opening bracket of any style still open before it; the depth is never
\* negative (a closer met at depth 0 is not counted); the tokens returned
\* are the pieces between those separators, in the order of the text.
C20_SplitOnlyAtDepthZero ==
    sp_text # None =>
      /\ sp_st.depth >= 0
      /\ \A k \in 1..(sp_i - 1) :
           k \in sp_cuts <=> (sp_text[1][k] \in separators /\ ~C20_Unclosed(sp_text[1], k))
      /\ sp_result # None => sp_result[1] = C20_Pieces(sp_text[1], sp_cuts)

\* A returned call whose text has a separator at depth 0 that ended the
\* first token, then a closer met at depth 0, then an opener followed by a
\* separator that ended nothing: two tokens.
C20_Witness ==
    /\ sp_result # None
    /\ Len(sp_result[1]) = 2
    /\ \E a, b, c, d \in 1..Len(sp_text[1]) :
         /\ a < b /\ b < c /\ c < d
         /\ a \in sp_cuts
         /\ sp_text[1][b] \in closers /\ ~C20_Unclosed(sp_text[1], b)
         /\ sp_text[1][c] \in openers
         /\ sp_text[1][d] \in separators /\ d \notin sp_cuts

\* The parts of an outcome the caller reads.
C18_Visible(o) ==
    <<o.status, o.confidence, o.raw_ingredient_text, o.source_ref, o.source_type,
      o.debug.attempts>>

\* C18: a second call of process on the same SourceHarvester that is given
\* the search result and the per-URL results of the first call returns the
\* same status, confidence, text, source and attempts; and nothing of the
\* first call is in the outcome of the second: its attempts are one per URL
\* this call tried, its text is one this call extracted, and after an empty
\* search it is NEEDS_SOURCE without text and without attempts.
C18_NoStateBetweenCalls ==
    (calls = 2 /\ pc = "done") =>
      /\ (urls = earlier[1].urls /\ results = earlier[1].results) =>
           C18_Visible(outcome[1]) = C18_Visible(earlier[1].outcome)
      /\ Len(outcome[1].debug.attempts) = Len(results)
      /\ outcome[1].raw_ingredient_text # None =>
           \E k \in 1..Len(results) :
               /\ results[k].extracted # None
               /\ results[k].extracted[1].text = outcome[1].raw_ingredient_text[1]
      /\ urls = <<>> =>
           /\ outcome[1].status = "NEEDS_SOURCE"
           /\ outcome[1].raw_ingredient_text = None
           /\ outcome[1].debug.attempts = <<>>

\* The first call returned PENDING after two URLs; the second call, given an
\* empty search result, returned while the model still held the candidate
\* and the attempts of the first.
C18_Witness ==
    /\ calls = 2
    /\ pc = "done"
    /\ earlier[1].outcome.status = "PENDING"
    /\ Len(earlier[1].outcome.debug.attempts) >= 2
    /\ urls = <<>>
    /\ outcome[1].status = "NEEDS_SOURCE"

\* How many '/' a text, or a list of tokens, holds.
SlashCount(t) == Cardinality({i \in 1..Len(t) : t[i] = "/"})

SlashesIn(tokens) == SumOver([i \in 1..Len(tokens) |-> SlashCount(tokens[i])], 1..Len(tokens))

\* The non-empty tokens of the primary split.
C21_Primary == _split_outside_parens(StripSet(sl_text[1], {SP}), separators)

\* The one token of the primary split holds a '/' between two spaces.
C21_SpacedSlash ==
    /\ Len(C21_Primary) = 1
    /\ \E i \in 2..(Len(C21_Primary[1]) - 1) :
         /\ C21_Primary[1][i] = "/"
         /\ C21_Primary[1][i - 1] = SP
         /\ C21_Primary[1][i + 1] = SP

\* C21: '/' is given to the splitter as a separator exactly when the primary
\* split yields one non-empty token that holds a '/' with whitespace on both
\* sides; the result is then that token split at '/' outside brackets, and in
\* every other case each '/' of the text is still inside a returned token and
\* the tokens are those of the primary split, so a lone compound name with an
\* unspaced '/' stays one token.
C21_SlashOnlyWhenSpaced ==
    (sl_pc = "done" /\ StripSet(sl_text[1], {SP}) # <<>>) =>
      /\ sl_slash <=> C21_SpacedSlash
      /\ sl_result[1] = _split_ingredients(sl_text[1])
      /\ sl_slash =>
           sl_result[1].tokens =
             SelectSeq([i \in 1..Len(sl_tokens) |-> NormalizeToken(sl_tokens[i])],
                       NonEmptyToken)
           /\ sl_tokens = _split_outside_parens(C21_Primary[1], {"/"})
      /\ ~sl_slash =>
           /\ SlashesIn(sl_result[1].tokens) = SlashCount(sl_text[1])
           /\ Len(sl_result[1].tokens) <= Len(C21_Primary)

\* A compound name with an unspaced '/' came back as one token.
C21_Witness ==
    /\ sl_pc = "done"
    /\ sl_text[1] = <<"a", "/", "a", SP, "a">>
    /\ ~sl_slash
    /\ sl_result[1].tokens = <<<<"a", "/", "a", SP, "a">>>>

\* The positions of the emitted ingredients with uncertain = true.
C22_Uncertain(c) == {k \in 1..Len(Ingredients(c)) : Ingredients(c)[k].uncertain}

\* The position at which a text is first emitted as uncertain.
C22_FirstAt(c, text) ==
    CHOOSE k \in C22_Uncertain(c) :
      /\ Ingredients(c)[k].original_text = text
      /\ \A j \in C22_Uncertain(c) : Ingredients(c)[j].original_text = text => k <= j

\* C22: in every parse result, unrecognized_tokens holds no text twice, holds
\* exactly the original_text values of the emitted ingredients with uncertain
\* = true, and lists them in the order in which each is first emitted.
C22_UnrecognizedUniqueOrdered ==
    \A c \in Returned :
      LET u == p_call[c].result[1].unrecognized_tokens
      IN /\ \A i, j \in 1..Len(u) : u[i] = u[j] => i = j
         /\ {u[i] : i \in 1..Len(u)}
              = {Ingredients(c)[k].original_text : k \in C22_Uncertain(c)}
         /\ \A i, j \in 1..Len(u) : i < j => C22_FirstAt(c, u[i]) < C22_FirstAt(c, u[j])

\* Three unmapped tokens, the first and the third the same text: two entries.
C22_Witness ==
    /\ p_call[1].result # None
    /\ Len(Ingredients(1)) = 3
    /\ C22_Uncertain(1) = {1, 2, 3}
    /\ Ingredients(1)[1].original_text = Ingredients(1)[3].original_text
    /\ Ingredients(1)[1].original_text # Ingredients(1)[2].original_text
    /\ Len(p_call[1].result[1].unrecognized_tokens) = 2

\* The candidates as they are scored: sliced, label-stripped, noise-cleaned.
C23_Prepared == [i \in 1..Len(dm_candidates) |-> Prepared(dm_candidates[i])]

\* The positions of the candidates that reach 0.3.
C23_Reaching == {i \in 1..Len(C23_Prepared) : _feature_score(C23_Prepared[i]) >= 30}

\* The position at which a text is first collected.
C23_FirstAt(t) ==
    CHOOSE i \in 1..Len(C23_Prepared) :
      C23_Prepared[i] = t /\ \A j \in 1..(i - 1) : C23_Prepared[j] # t

\* C23: extract_ingredients returns no result exactly when no candidate
\* reaches 0.3; what it returns is a candidate that reaches 0.3, carries that
\* candidate's score, has the greatest score of those candidates, the least
\* length among those of greatest score, and was collected before every
\* other candidate of that score and length.
C23_BestCandidate ==
    (dm_pc = "done" /\ ~dm_html[1].empty) =>
      /\ dm_result[1] = None <=> C23_Reaching = {}
      /\ dm_result[1] # None =>
           LET best == dm_result[1][1].text
           IN /\ \E i \in C23_Reaching : C23_Prepared[i] = best
              /\ dm_result[1][1].score = _feature_score(best)
              /\ dm_result[1][1].score >= 30
              /\ \A i \in C23_Reaching :
                   LET t == C23_Prepared[i]
                   IN /\ _feature_score(t) <= _feature_score(best)
                      /\ _feature_score(t) = _feature_score(best) =>
                           /\ TextLen(best) <= TextLen(t)
                           /\ TextLen(best) = TextLen(t) => C23_FirstAt(best) <= i

\* Two candidates reach the greatest score; the longer one was collected
\* first and the shorter one was returned.
C23_Witness ==
    /\ dm_pc = "done"
    /\ dm_result[1] # None
    /\ \E j \in C23_Reaching :
         /\ j < C23_FirstAt(dm_result[1][1].text)
         /\ _feature_score(C23_Prepared[j]) = dm_result[1][1].score
         /\ TextLen(C23_Prepared[j]) > TextLen(dm_result[1][1].text)

\* The flattened text of the page outside script, style, noscript and svg
\* elements, and the first 20 characters of a cleaned, label-stripped text.
C24_Dom == CharSeq(OutsideText(dm_html[1].body))

C24_Prefix(text) ==
    LET t == CharSeq(_strip_label_prefix(extract_clean_noise(text)))
    IN SubSeq(t, 1, Min(20, Len(t)))

\* The prefix is not empty and is found in the page.
C24_Found(text) ==
    /\ C24_Prefix(text) # <<>>
    /\ \E i \in 1..Len(C24_Dom) :
         /\ i + Len(C24_Prefix(text)) - 1 <= Len(C24_Dom)
         /\ \A k \in 1..Len(C24_Prefix(text)) : C24_Dom[i + k - 1] = C24_Prefix(text)[k]

\* C24: verified_in_dom, and verify_token_in_dom called on its own, is true
\* exactly when the first 20 characters of the label-stripped, noise-cleaned
\* text are found in the flattened text of the page outside script, style,
\* noscript and svg elements; it is false when the html or the text is empty.
C24_VerifiedIffPrefixInDom ==
    /\ (dm_pc = "done" /\ dm_result[1] # None) =>
         (dm_result[1][1].verified_in_dom <=> C24_Found(dm_result[1][1].text))
    /\ dm_pc = "verified" =>
         /\ dm_verified[1] <=>
              (~dm_html[1].empty /\ dm_text[1] # <<>> /\ C24_Found(dm_text[1]))
         /\ (dm_html[1].empty \/ dm_text[1] = <<>>) => ~dm_verified[1]

\* A text longer than 20 characters is verified by its first 20 characters,
\* the page differing from it further on.
C24_Witness ==
    /\ dm_pc = "verified"
    /\ dm_verified[1]
    /\ Len(CharSeq(_strip_label_prefix(extract_clean_noise(dm_text[1])))) > 20
    /\ ~Occurs(CharSeq(_strip_label_prefix(extract_clean_noise(dm_text[1]))), C24_Dom)

\* C25: for every input text, clean_noise of extract.py returns the same
\* cleaned text as clean_noise of ingredient_parser.py.
C25_SameCleanedText ==
    (nc_extract # None /\ nc_parser # None) => nc_extract[1] = nc_parser[1]

\* One of ',' ';' and their full-width forms is in the text.
C26_Separated(t) ==
    \E i \in 1..Len(t) : t[i].s = "," \/ t[i].s = ";" \/ t[i].s = "U+FF0C" \/ t[i].s = "U+FF1B"

\* C26: a text without list separator scores at most 0.35; a score of at
\* least 0.8 requires a separator, at least 4 non-empty parts and at least 2
\* common-token hits; process never returns OK for an extracted text without
\* list separator, verified or not.
C26_NoSeparatorNeverTrusted ==
    /\ tr_score # None =>
         LET t == tr_page[1].cands[1]
         IN /\ ~C26_Separated(t) => tr_score[1] <= 35
            /\ tr_score[1] >= 80 => (C26_Separated(t) /\ TokenCount(t) >= 4 /\ Hits(t) >= 2)
    /\ (tr_pc = "done" /\ tr_extracted[1] # None) =>
         /\ (~C26_Separated(tr_extracted[1][1].text)) =>
              (tr_extracted[1][1].score <= 35 /\ tr_status[1] # "OK")
         /\ tr_status[1] = "OK" => C26_Separated(tr_extracted[1][1].text)

\* A verified text without separator, extracted with four hits (0.32), is
\* kept as pending and not returned as OK.
C26_Witness ==
    /\ tr_pc = "done"
    /\ tr_extracted[1] # None
    /\ ~C26_Separated(tr_extracted[1][1].text)
    /\ tr_extracted[1][1].verified_in_dom
    /\ tr_extracted[1][1].score = 32
    /\ tr_status[1] = "kept"

\* C27: parse returns OK or NEEDS_REVIEW only with a non-empty ingredient
\* list; an empty inci_list is returned only with NEEDS_SOURCE and
\* confidence 0, also when every token is empty after tag stripping.
C27_EmptyListOnlyNeedsSource ==
    \A c \in Returned :
        LET r == p_call[c].result[1]
        IN /\ r.parse_status \in {"OK", "NEEDS_REVIEW"} =>
                (r.ingredients # <<>> /\ r.inci_list # <<>>)
           /\ (r.inci_list = <<>> \/ r.ingredients = <<>>) =>
                (r.parse_status = "NEEDS_SOURCE" /\ r.parse_confidence = 0)

\* C28: once harvest_row has ended for a candidate row that is neither
\* non-cosmetic nor skipped for having ingredient text, the candidate row
\* holds the status, confidence, text, source_ref and source_type of an
\* outcome of process and the task row its status; the rows are in status
\* ERROR only when the harvest raised.
C28_OutcomeStored ==
    \A c \in tk_calls :
        (~c.before.non_cosmetic
           /\ (tk_force \/ ~_has_meaningful_ingredients(c.before.raw_ingredient_text))) =>
          \/ \E o \in JobOutcomes :
               /\ tk_cands[c.row].status = o.status
               /\ tk_cands[c.row].confidence = Some(o.confidence)
               /\ tk_cands[c.row].raw_ingredient_text = o.raw_ingredient_text
               /\ tk_cands[c.row].source_ref = o.source_ref
               /\ tk_cands[c.row].source_type = o.source_type
               /\ tk_trs[c.row].status = o.status
          \/ tk_cands[c.row].status = "ERROR" /\ tk_trs[c.row].status = "ERROR"

\* Every task row of the task is in a terminal status.
C29_AllTerminal ==
    \A i \in 1..Len(tk_trs) :
        tk_trs[i].status \in {"OK", "PENDING", "NEEDS_SOURCE", "SKIPPED", "ERROR"}

\* The stored status goes from RUNNING to COMPLETED only with at least one
\* task row and every task row terminal; after an answer COMPLETED no answer
\* is RUNNING.
C29_Step ==
    /\ (tk_task = Some("RUNNING") /\ tk_task' = Some("COMPLETED")) =>
         (Len(tk_trs) > 0 /\ C29_AllTerminal)
    /\ tk_report = Some("COMPLETED") => tk_report' # Some("RUNNING")

C30_AttemptsThrottled ==
    /\ \A k \in 2..Len(db_starts) :
         ~db_starts[k].ready => db_starts[k].at - db_starts[k - 1].at >= RetryInterval
    /\ \A r \in DOMAIN db_req :
         db_req[r].pc \in {"locked", "creating", "release"} => db_lock = Some(r)

====
